---- MODULE Spec2Model ----
(***************************************************************************)
(* Model of the daily-finance Telegram bot (Cloudflare Worker).            *)
(*                                                                         *)
(*   src/src/index.ts     fetch / scheduled handlers                       *)
(*   src/src/scraper.ts   quote fetchers, HTML quote extractor, parsers    *)
(*   src/src/telegram.ts  message formatter and Bot API client             *)
(*   src/src/chart.ts     chart URL builder                                *)
(*                                                                         *)
(* Strings are sequences of characters.  An ASCII character is a          *)
(* one-character string; any other character is written "uXXXX" after its *)
(* code point.  A text that is only passed along (a name, a quote type) is *)
(* kept as one word, e.g. <<"EQUITY">>.                                    *)
(***************************************************************************)
EXTENDS Integers, Sequences, FiniteSets, TLC

VARIABLES
    \* ---- formatter (telegram.ts) ----
    fmtChange,      \* argument of formatChange: Undefined or a ChangeInfo
    fmtResult,      \* its result, NotRun before the call
    \* ---- HTML quote extractor (scraper.ts) ----
    pgSymbol,       \* argument of fetchYahooQuotePage
    pgPage,         \* what the quote provider answers for that symbol
    pgPc,           \* "call" -> "extracted" -> "returned"
    pgLocals,       \* price / change / changePercent after line 434
    pgResult,       \* the YahooLookupResult
    \* ---- worker (index.ts) ----
    request,        \* the event: an HTTP request or a scheduled trigger
    env,            \* TELEGRAM_BOT_TOKEN / TELEGRAM_CHAT_ID
    pc,             \* the await the handler is at
    response,       \* the HTTP response, NotRun until returned
    tg,             \* Telegram Bot API calls made, in order
    req,            \* requests made to quote and chart providers, in order
    loc,            \* the handler's local variables
    exchangeCache,  \* scraper.ts module variable
    now,            \* Date.now()
    \* ---- chart URLs (chart.ts) ----
    chKospi,        \* what the KOSPI chart endpoint answers
    chUsd,          \* what the USD chart endpoint answers
    chPc,           \* "call" -> "returned"
    chUrls,         \* result of getAllChartUrls, NotRun before
    \* ---- concurrent getExchange calls (scraper.ts) ----
    exCalls,        \* the getExchange calls made so far, in order of their start
    exWriter,       \* index of the call whose fetch wrote exchangeCache, 0 if none
    exTicks         \* how often the clock has advanced

fmtVars == <<fmtChange, fmtResult>>
pgVars == <<pgSymbol, pgPage, pgPc, pgLocals, pgResult>>
hookVars == <<request, env, pc, response, tg, req, loc, exchangeCache, now>>
chVars == <<chKospi, chUsd, chPc, chUrls>>
exVars == <<exCalls, exWriter, exTicks>>
vars == <<fmtChange, fmtResult, pgSymbol, pgPage, pgPc, pgLocals, pgResult,
          request, env, pc, response, tg, req, loc, exchangeCache, now,
          chKospi, chUsd, chPc, chUrls, exCalls, exWriter, exTicks>>

\* A value that may be absent is a record: Null, Undefined, Str(s), Num(n) or
\* an object; records of different shapes compare unequal.
Null == [null |-> TRUE]            \* JavaScript null
Undefined == [undefined |-> TRUE]  \* JavaScript undefined / absent property
NotRun == [notrun |-> TRUE]        \* the operation has not acted yet
Str(s) == [str |-> s]
Num(n) == [num |-> n]

(***************************************************************************)
(* String helpers: String.prototype.trim / toLowerCase / toUpperCase /     *)
(* startsWith / slice(1), on character sequences.                          *)
(***************************************************************************)
Uppers == <<"A","B","C","D","E","F","G","H","I","J","K","L","M",
            "N","O","P","Q","R","S","T","U","V","W","X","Y","Z">>
Lowers == <<"a","b","c","d","e","f","g","h","i","j","k","l","m",
            "n","o","p","q","r","s","t","u","v","w","x","y","z">>

IsSpace(c) == c \in {" ", "\t", "\n"}

LowerChar(c) ==
    IF \E i \in 1..26 : Uppers[i] = c
    THEN Lowers[CHOOSE i \in 1..26 : Uppers[i] = c]
    ELSE c

UpperChar(c) ==
    IF \E i \in 1..26 : Lowers[i] = c
    THEN Uppers[CHOOSE i \in 1..26 : Lowers[i] = c]
    ELSE c

toLowerCase(s) == [i \in 1..Len(s) |-> LowerChar(s[i])]
toUpperCase(s) == [i \in 1..Len(s) |-> UpperChar(s[i])]

RECURSIVE TrimStart(_)
TrimStart(s) ==
    IF s # <<>> /\ IsSpace(Head(s)) THEN TrimStart(Tail(s)) ELSE s

RECURSIVE TrimEnd(_)
TrimEnd(s) ==
    IF s # <<>> /\ IsSpace(s[Len(s)]) THEN TrimEnd(SubSeq(s, 1, Len(s) - 1)) ELSE s

trim(s) == TrimEnd(TrimStart(s))

startsWith(s, c) == s # <<>> /\ Head(s) = c

slice1(s) == IF s = <<>> THEN <<>> ELSE Tail(s)

(***************************************************************************)
(* telegram.ts: formatChange                                               *)
(***************************************************************************)
EmojiUp == <<"u2197", "uFE0F">>
EmojiDown == <<"u2198", "uFE0F">>
EmojiFlat == <<"u2796">>

Directions == {"up", "down", "unchanged"}

\* change.value.replace(/^[+-]/, '')
StripSign(v) == IF v # <<>> /\ Head(v) \in {"+", "-"} THEN Tail(v) ELSE v

formatChange_SignFromValue(change) ==
    IF change = Undefined \/ change.value = <<>> THEN <<>>
    ELSE LET emoji == IF change.direction = "up" THEN EmojiUp
                      ELSE IF change.direction = "down" THEN EmojiDown
                      ELSE EmojiFlat
             signedValue == IF Head(change.value) \in {"+", "-"}
                            THEN change.value
                            ELSE <<"+">> \o change.value
             percentText == IF change.percent # <<>>
                            THEN <<" ", "(">> \o change.percent \o <<")">>
                            ELSE <<>>
         IN  <<" ">> \o emoji \o signedValue \o percentText

formatChange(change) ==
    IF change = Undefined \/ change.value = <<>> THEN <<>>
    ELSE LET emoji == IF change.direction = "up" THEN EmojiUp
                      ELSE IF change.direction = "down" THEN EmojiDown
                      ELSE EmojiFlat
             cleanValue == StripSign(change.value)
             signedValue == IF change.direction = "down"
                            THEN <<"-">> \o cleanValue
                            ELSE <<"+">> \o cleanValue
             percentText == IF change.percent # <<>>
                            THEN <<" ", "(">> \o change.percent \o <<")">>
                            ELSE <<>>
         IN  <<" ">> \o emoji \o signedValue \o percentText

\* Provider delta strings fed to the formatter.
FmtValues ==
    { <<>>, <<"0">>, <<"1", "2">>, <<"+", "1", "2">>, <<"-", "1", "2">>,
      <<"-", "-", "1">>, <<"+", "-", "1">>, <<"-">>, <<"1", "-", "2">> }
FmtPercents == { <<>>, <<"0", ".", "5", "%">>, <<"-", "1", "%">> }

FmtInputs ==
    {Undefined} \cup
    [direction : Directions, value : FmtValues, percent : FmtPercents]

FmtInit ==
    /\ fmtChange \in FmtInputs
    /\ fmtResult = NotRun

FormatChange ==
    /\ fmtResult = NotRun
    /\ fmtResult' = Str(formatChange(fmtChange))
    /\ UNCHANGED fmtChange

(***************************************************************************)
(* scraper.ts: number formatting.  Numbers are integers here, so the       *)
(* fraction-digit limits of formatYahooPrice never cut anything.           *)
(***************************************************************************)
Abs(n) == IF n < 0 THEN 0 - n ELSE n

DigitChars == <<"0", "1", "2", "3", "4", "5", "6", "7", "8", "9">>

RECURSIVE Digits(_)
Digits(n) ==
    IF n < 10 THEN <<DigitChars[n + 1]>>
    ELSE Digits(n \div 10) \o <<DigitChars[(n % 10) + 1]>>

\* en-US grouping: a comma before every group of three digits
RECURSIVE Grouped(_)
Grouped(d) ==
    IF Len(d) <= 3 THEN d
    ELSE Grouped(SubSeq(d, 1, Len(d) - 3)) \o <<",">> \o SubSeq(d, Len(d) - 2, Len(d))

\* value.toLocaleString('en-US', ...)
formatYahooPrice(value) ==
    IF value < 0 THEN <<"-">> \o Grouped(Digits(Abs(value)))
    ELSE Grouped(Digits(value))

\* n.toFixed(2)
toFixed2(n) ==
    (IF n < 0 THEN <<"-">> ELSE <<>>) \o Digits(Abs(n)) \o <<".", "0", "0">>

IsFinite(v) == v # Null /\ v # Undefined /\ "num" \in DOMAIN v

toYahooChangeInfo_Signed(change, changePercent) ==
    IF ~IsFinite(change) \/ ~IsFinite(changePercent) THEN Undefined
    ELSE [direction |-> IF change.num > 0 THEN "up"
                        ELSE IF change.num < 0 THEN "down" ELSE "unchanged",
          value |-> formatYahooPrice(change.num),
          percent |-> toFixed2(changePercent.num) \o <<"%">>]

toYahooChangeInfo(change, changePercent) ==
    IF ~IsFinite(change) \/ ~IsFinite(changePercent) THEN Undefined
    ELSE [direction |-> IF change.num > 0 THEN "up"
                        ELSE IF change.num < 0 THEN "down" ELSE "unchanged",
          value |-> formatYahooPrice(Abs(change.num)),
          percent |-> toFixed2(Abs(changePercent.num)) \o <<"%">>]

YAHOO_ASSET_TYPE_MAP ==
    [t \in {<<"EQUITY">>, <<"INDEX">>, <<"CRYPTOCURRENCY">>} |->
        CASE t = <<"EQUITY">> -> "stock"
          [] t = <<"INDEX">> -> "index"
          [] t = <<"CRYPTOCURRENCY">> -> "crypto"]

toYahooAssetType(quoteType) ==
    IF quoteType = Undefined \/ quoteType.str = <<>> THEN "other"
    ELSE IF quoteType.str \in DOMAIN YAHOO_ASSET_TYPE_MAP
         THEN YAHOO_ASSET_TYPE_MAP[quoteType.str]
         ELSE "other"

(***************************************************************************)
(* scraper.ts: the HTML quote extractor.                                   *)
(*                                                                         *)
(* A page is what node-html-parser exposes of it:                          *)
(*   status     "throw" (fetch rejects), "404", "500", "200"               *)
(*   bodyFails  response.text() rejects                                    *)
(*   phrases    the phrases the HTML text contains, each with the case it  *)
(*              is written in                                              *)
(*   canonical  href of link[rel=canonical]: Undefined, [other], or        *)
(*              [quote |-> s] for ".../quote/<s>/..."                      *)
(*   streamers  per data-field, the fin-streamer nodes in document order   *)
(*   sveltekit  the script[data-sveltekit-fetched] blocks in order         *)
(*   trending   the script#fin-trending-tickers block                      *)
(*   heading    what extractYahooName finds in h1 / title, or Undefined    *)
(*   htmlType   what extractQuoteTypeFromHtml finds, or Undefined          *)
(* A numeric string is Num(n): a text that Number() reads as n once        *)
(* parseSignedNumber has removed ',', '%', '(' and ')'.                    *)
(***************************************************************************)
Fields == {"regularMarketPrice", "regularMarketChange", "regularMarketChangePercent"}

Falsy(v) == v = Undefined \/ v = Null \/ v = Str(<<>>)

parseSignedNumber(raw) ==
    IF Falsy(raw) THEN Null
    ELSE IF "num" \in DOMAIN raw THEN raw
    ELSE Null

toFiniteNumber(value) ==
    IF value = Undefined \/ value = Null THEN Null
    ELSE IF "num" \in DOMAIN value THEN value
    ELSE IF "raw" \in DOMAIN value /\ IsFinite(value.raw) THEN value.raw
    ELSE Null

Or(a, b) == IF Falsy(a) THEN b ELSE a          \* a || b
Coalesce(a, b) == IF a = Null \/ a = Undefined THEN b ELSE a   \* a ?? b

toParsedYahooQuote(item) ==
    IF Falsy(item.symbol) THEN Null
    ELSE LET price == toFiniteNumber(item.regularMarketPrice)
         IN  IF price = Null THEN Null
             ELSE [symbol |-> toUpperCase(item.symbol.str),
                   name |-> Or(item.longName, Or(item.shortName, item.symbol)),
                   quoteType |-> item.quoteType,
                   price |-> price,
                   change |-> toFiniteNumber(item.regularMarketChange),
                   changePercent |-> toFiniteNumber(item.regularMarketChangePercent)]

\* the inner for-loop over the items of one script; a null item throws inside
\* the try block, which abandons the rest of that script
RECURSIVE ScanItems(_, _)
ScanItems(items, targetSet) ==
    IF items = <<>> THEN Null
    ELSE IF Head(items) = Null THEN Null
    ELSE LET parsed == toParsedYahooQuote(Head(items))
         IN  IF parsed # Null /\ parsed.symbol \in targetSet THEN parsed
             ELSE ScanItems(Tail(items), targetSet)

RECURSIVE ScanScripts(_, _)
ScanScripts(scripts, targetSet) ==
    IF scripts = <<>> THEN Null
    ELSE LET script == Head(scripts)
             found == IF script.kind = "results"
                      THEN ScanItems(script.results, targetSet)
                      ELSE Null
         IN  IF found # Null THEN found
             ELSE ScanScripts(Tail(scripts), targetSet)

extractFromSveltekitFetchedScripts(page, symbolCandidates) ==
    ScanScripts(page.sveltekit, {toUpperCase(c) : c \in symbolCandidates})

extractFromTrendingScript(page, symbolCandidates) ==
    IF page.trending.kind # "results" THEN Null
    ELSE ScanItems(page.trending.results, {toUpperCase(c) : c \in symbolCandidates})

RECURSIVE ScanNodes(_, _)
ScanNodes(nodes, target) ==
    IF nodes = <<>> THEN Null
    ELSE LET node == Head(nodes)
             nodeSymbol == toUpperCase(Or(node.symbol, Str(<<>>)).str)
             parsed == parseSignedNumber(Or(node.value, node.text))
         IN  IF nodeSymbol = target /\ parsed # Null THEN parsed
             ELSE ScanNodes(Tail(nodes), target)

extractFinStreamerNumber(page, symbol, field) ==
    ScanNodes(page.streamers[field], toUpperCase(symbol))

extractCanonicalSymbol(page, fallback) ==
    IF Falsy(page.canonical) THEN fallback
    ELSE IF "quote" \notin DOMAIN page.canonical THEN fallback
    ELSE toUpperCase(page.canonical.quote)

extractYahooName(page, fallbackSymbol) ==
    IF page.heading = Undefined THEN Str(fallbackSymbol) ELSE page.heading

NotFoundPhrases ==
    { "symbol lookup from yahoo finance", "requested symbol wasn",
      "requested symbol was not found", "lookup from yahoo finance" }
RateLimitPhrase == "too many requests"

\* html.toLowerCase(): the phrases without their case
LowerHtml(page) == {p.phrase : p \in page.phrases}

looksLikeYahooNotFoundPage(page) ==
    \E p \in NotFoundPhrases : p \in LowerHtml(page)

\* the three let-variables and the embedded quote after line 434
ExtractLocals_EmbeddedFirst(page, normalizedSymbol) ==
    LET resolvedSymbol == extractCanonicalSymbol(page, normalizedSymbol)
        fs(field) == Coalesce(extractFinStreamerNumber(page, resolvedSymbol, field),
                              extractFinStreamerNumber(page, normalizedSymbol, field))
        symbolCandidates == {resolvedSymbol, normalizedSymbol}
        sk == extractFromSveltekitFetchedScripts(page, symbolCandidates)
        embeddedQuote == IF sk # Null THEN sk
                         ELSE extractFromTrendingScript(page, symbolCandidates)
        has == embeddedQuote # Null
        pick(field, emb) == IF has /\ emb # Null THEN emb ELSE fs(field)
    IN  [resolvedSymbol |-> IF has THEN embeddedQuote.symbol ELSE resolvedSymbol,
         price |-> pick("regularMarketPrice", IF has THEN embeddedQuote.price ELSE Null),
         change |-> pick("regularMarketChange", IF has THEN embeddedQuote.change ELSE Null),
         changePercent |-> pick("regularMarketChangePercent",
                                IF has THEN embeddedQuote.changePercent ELSE Null),
         quoteType |-> IF has THEN embeddedQuote.quoteType ELSE Undefined,
         embeddedName |-> IF has THEN embeddedQuote.name ELSE Undefined]

ExtractLocals(page, normalizedSymbol) ==
    LET resolvedSymbol == extractCanonicalSymbol(page, normalizedSymbol)
        fs(field) == Coalesce(extractFinStreamerNumber(page, resolvedSymbol, field),
                              extractFinStreamerNumber(page, normalizedSymbol, field))
        symbolCandidates == {resolvedSymbol, normalizedSymbol}
        sk == extractFromSveltekitFetchedScripts(page, symbolCandidates)
        embeddedQuote == IF sk # Null THEN sk
                         ELSE extractFromTrendingScript(page, symbolCandidates)
        has == embeddedQuote # Null
        pick(field, emb) == IF has /\ fs(field) = Null THEN emb ELSE fs(field)
    IN  [resolvedSymbol |-> IF has THEN embeddedQuote.symbol ELSE resolvedSymbol,
         price |-> pick("regularMarketPrice", IF has THEN embeddedQuote.price ELSE Null),
         change |-> pick("regularMarketChange", IF has THEN embeddedQuote.change ELSE Null),
         changePercent |-> pick("regularMarketChangePercent",
                                IF has THEN embeddedQuote.changePercent ELSE Null),
         quoteType |-> IF has THEN embeddedQuote.quoteType ELSE Undefined,
         embeddedName |-> IF has THEN embeddedQuote.name ELSE Undefined]

NotFound(query) == [status |-> "not_found", query |-> query]
LookupError(query, reason) == [status |-> "error", query |-> query, reason |-> reason]

\* the part of fetchYahooQuotePage before the page is parsed: a result when it
\* returns early, NotRun when it goes on to parse the page
EarlyResult(symbol, page) ==
    LET normalizedSymbol == toUpperCase(trim(symbol))
    IN  IF normalizedSymbol = <<>> THEN NotFound(symbol)
        ELSE IF page.status = "throw" THEN LookupError(normalizedSymbol, "page error")
        ELSE IF page.status = "404" THEN NotFound(normalizedSymbol)
        ELSE IF page.status # "200" THEN LookupError(normalizedSymbol, "page failed")
        ELSE IF page.bodyFails THEN LookupError(normalizedSymbol, "page error")
        ELSE IF RateLimitPhrase \in LowerHtml(page)
             THEN LookupError(normalizedSymbol, "rate-limited")
        ELSE NotRun

LateResult_MarkerFirst(symbol, page, ext) ==
    LET normalizedSymbol == toUpperCase(trim(symbol))
    IN  IF looksLikeYahooNotFoundPage(page) THEN NotFound(normalizedSymbol)
        ELSE IF ext.price = Null
        THEN LookupError(normalizedSymbol, "missing market price")
        ELSE [status |-> "ok",
              data |-> [symbol |-> ext.resolvedSymbol,
                        name |-> Or(ext.embeddedName,
                                    extractYahooName(page, ext.resolvedSymbol)),
                        value |-> formatYahooPrice(ext.price.num),
                        change |-> toYahooChangeInfo(Coalesce(ext.change, Undefined),
                                                     Coalesce(ext.changePercent, Undefined)),
                        sourceUrl |-> <<"quote", "/">> \o ext.resolvedSymbol \o <<"/">>,
                        assetType |-> toYahooAssetType(Or(ext.quoteType, page.htmlType))]]

\* the part after line 434
LateResult(symbol, page, ext) ==
    LET normalizedSymbol == toUpperCase(trim(symbol))
    IN  IF ext.price = Null
        THEN IF looksLikeYahooNotFoundPage(page) THEN NotFound(normalizedSymbol)
             ELSE LookupError(normalizedSymbol, "missing market price")
        ELSE [status |-> "ok",
              data |-> [symbol |-> ext.resolvedSymbol,
                        name |-> Or(ext.embeddedName,
                                    extractYahooName(page, ext.resolvedSymbol)),
                        value |-> formatYahooPrice(ext.price.num),
                        change |-> toYahooChangeInfo(Coalesce(ext.change, Undefined),
                                                     Coalesce(ext.changePercent, Undefined)),
                        sourceUrl |-> <<"quote", "/">> \o ext.resolvedSymbol \o <<"/">>,
                        assetType |-> toYahooAssetType(Or(ext.quoteType, page.htmlType))]]

fetchYahooQuotePage(symbol, page) ==
    IF EarlyResult(symbol, page) # NotRun THEN EarlyResult(symbol, page)
    ELSE LateResult(symbol, page, ExtractLocals(page, toUpperCase(trim(symbol))))

(***************************************************************************)
(* Pages the quote provider may answer with.  The requested symbol is "a"  *)
(* (normalised "A"); "B" is the symbol a canonical link may resolve to and *)
(* "C" an unrelated one.  Every source carries its own number so that the  *)
(* origin of an extracted field can be read off its value.                 *)
(***************************************************************************)
Node(sym, value, text) == [symbol |-> Str(sym), value |-> value, text |-> text]

StreamerChoices ==
    { <<>>,
      <<Node(<<"A">>, Num(11), Str(<<>>))>>,
      <<Node(<<"B">>, Num(12), Str(<<>>))>>,
      <<Node(<<"A">>, Num(11), Str(<<>>)), Node(<<"B">>, Num(12), Str(<<>>))>>,
      <<Node(<<"b">>, Str(<<"N", "/", "A">>), Num(15)), Node(<<"B">>, Undefined, Num(0))>>,
      <<Node(<<"C">>, Num(13), Str(<<>>))>> }

Item(sym, price, change, pct) ==
    [symbol |-> sym, quoteType |-> Str(<<"EQUITY">>), shortName |-> Undefined,
     longName |-> Str(<<"Name">>), regularMarketPrice |-> price,
     regularMarketChange |-> change, regularMarketChangePercent |-> pct]

Script(kind, results) == [kind |-> kind, results |-> results]

SveltekitChoices ==
    { <<>>,
      <<Script("malformed", <<>>), Script("results", <<Item(Str(<<"a">>), Num(21), Num(-21), Num(-2))>>)>>,
      <<Script("results", <<Item(Str(<<"B">>), [raw |-> Num(22)], Undefined, Undefined)>>)>>,
      <<Script("results", <<Item(Str(<<"A">>), Undefined, Num(23), Num(23))>>)>>,
      <<Script("results", <<Null, Item(Str(<<"A">>), Num(24), Num(24), Num(24))>>),
        Script("nobody", <<>>)>>,
      <<Script("results", <<Item(Str(<<"C">>), Num(25), Num(25), Num(25))>>)>> }

TrendingChoices ==
    { Script("absent", <<>>),
      Script("malformed", <<>>),
      Script("results", <<Item(Undefined, Num(30), Num(30), Num(30)),
                          Item(Str(<<"A">>), Num(31), Num(0), Num(0))>>) }

Phrase(p, upper) == [phrase |-> p, upper |-> upper]

PhraseChoices ==
    { {},
      {Phrase("requested symbol wasn", FALSE)},
      {Phrase("symbol lookup from yahoo finance", TRUE),
       Phrase("lookup from yahoo finance", TRUE)},
      {Phrase("too many requests", TRUE)},
      {Phrase("too many requests", FALSE), Phrase("requested symbol was not found", FALSE)} }

CanonicalChoices ==
    { Undefined, [other |-> TRUE], [quote |-> <<"b">>] }

NoBodyPage(status) ==
    [status |-> status, bodyFails |-> FALSE, phrases |-> {}, canonical |-> Undefined,
     streamers |-> [f \in Fields |-> <<>>], sveltekit |-> <<>>,
     trending |-> Script("absent", <<>>), heading |-> Undefined, htmlType |-> Undefined]

HtmlPages ==
    { [status |-> "200", bodyFails |-> FALSE, phrases |-> ph, canonical |-> ca,
       streamers |-> st, sveltekit |-> sk, trending |-> tr,
       heading |-> Undefined, htmlType |-> Undefined] :
        ph \in PhraseChoices, ca \in CanonicalChoices,
        st \in [Fields -> StreamerChoices],
        sk \in SveltekitChoices, tr \in TrendingChoices }

Pages ==
    {NoBodyPage("throw"), NoBodyPage("404"), NoBodyPage("500"),
     [NoBodyPage("200") EXCEPT !.bodyFails = TRUE]} \cup HtmlPages

PgSymbols == { <<>>, <<" ">>, <<"a">>, <<" ", "A", " ">> }

PgInit ==
    /\ pgSymbol \in PgSymbols
    /\ pgPage \in Pages
    /\ pgPc = "call"
    /\ pgLocals = Null
    /\ pgResult = NotRun

\* fetchYahooQuotePage up to line 434: fetch the page, return early or extract
PgFetch ==
    /\ pgPc = "call"
    /\ IF EarlyResult(pgSymbol, pgPage) # NotRun
       THEN /\ pgResult' = EarlyResult(pgSymbol, pgPage)
            /\ pgPc' = "returned"
            /\ UNCHANGED pgLocals
       ELSE /\ pgLocals' = ExtractLocals(pgPage, toUpperCase(trim(pgSymbol)))
            /\ pgPc' = "extracted"
            /\ UNCHANGED pgResult
    /\ UNCHANGED <<pgSymbol, pgPage>>

\* fetchYahooQuotePage from line 436: decide the result
PgReturn ==
    /\ pgPc = "extracted"
    /\ pgResult' = LateResult(pgSymbol, pgPage, pgLocals)
    /\ pgPc' = "returned"
    /\ UNCHANGED <<pgSymbol, pgPage, pgLocals>>

(***************************************************************************)
(* scraper.ts: command parsers                                             *)
(***************************************************************************)
MarketTypes == {"kospi", "kosdaq", "nasdaq", "usd", "jpy", "eur", "gbp", "chf", "cny"}

commandMapEntries ==
    { <<<<"uCF54", "uC2A4", "uD53C">>, "kospi">>,
      <<<<"k", "o", "s", "p", "i">>, "kospi">>,
      <<<<"K", "O", "S", "P", "I">>, "kospi">>,
      <<<<"uCF54", "uC2A4", "uB2E5">>, "kosdaq">>,
      <<<<"k", "o", "s", "d", "a", "q">>, "kosdaq">>,
      <<<<"K", "O", "S", "D", "A", "Q">>, "kosdaq">>,
      <<<<"uB098", "uC2A4", "uB2E5">>, "nasdaq">>,
      <<<<"n", "a", "s", "d", "a", "q">>, "nasdaq">>,
      <<<<"N", "A", "S", "D", "A", "Q">>, "nasdaq">>,
      <<<<"uB2EC", "uB7EC">>, "usd">>,
      <<<<"u", "s", "d">>, "usd">>,
      <<<<"U", "S", "D">>, "usd">>,
      <<<<"uC5D4", "uD654">>, "jpy">>,
      <<<<"uC5D4">>, "jpy">>,
      <<<<"j", "p", "y">>, "jpy">>,
      <<<<"J", "P", "Y">>, "jpy">>,
      <<<<"uC720", "uB85C">>, "eur">>,
      <<<<"e", "u", "r">>, "eur">>,
      <<<<"E", "U", "R">>, "eur">>,
      <<<<"uD30C", "uC6B4", "uB4DC">>, "gbp">>,
      <<<<"g", "b", "p">>, "gbp">>,
      <<<<"G", "B", "P">>, "gbp">>,
      <<<<"uC2A4", "uC704", "uC2A4", "uD504", "uB791">>, "chf">>,
      <<<<"uD504", "uB791">>, "chf">>,
      <<<<"c", "h", "f">>, "chf">>,
      <<<<"C", "H", "F">>, "chf">>,
      <<<<"uC704", "uC548">>, "cny">>,
      <<<<"uC911", "uAD6D">>, "cny">>,
      <<<<"c", "n", "y">>, "cny">>,
      <<<<"C", "N", "Y">>, "cny">> }

commandMapKeys == {e[1] : e \in commandMapEntries}

\* commandMap is an object literal, so commandMap[command] also finds what
\* Object.prototype holds under that name: a function or an object, truthy
ObjectPrototypeKeys ==
    { <<"c", "o", "n", "s", "t", "r", "u", "c", "t", "o", "r">>,
      <<"t", "o", "S", "t", "r", "i", "n", "g">>,
      <<"v", "a", "l", "u", "e", "O", "f">>,
      <<"_", "_", "p", "r", "o", "t", "o", "_", "_">> }

\* commandMap[command] || null: Str(type) for an own key, [inherited] for a
\* name on the prototype chain, Null otherwise
parseCommand(command) ==
    IF command \in commandMapKeys
    THEN Str((CHOOSE e \in commandMapEntries : e[1] = command)[2])
    ELSE IF command \in ObjectPrototypeKeys THEN [inherited |-> command]
    ELSE Null

parseSearchCommand_NoTrim(command) ==
    LET trimmed == trim(command)
    IN  IF ~startsWith(trimmed, "?") THEN Null
        ELSE LET query == slice1(trimmed)
             IN  IF Len(query) > 0 THEN Str(query) ELSE Null

parseSearchCommand(command) ==
    LET trimmed == trim(command)
    IN  IF ~startsWith(trimmed, "?") THEN Null
        ELSE LET query == trim(slice1(trimmed))
             IN  IF Len(query) > 0 THEN Str(query) ELSE Null

(***************************************************************************)
(* scraper.ts: quote fetchers.  What a provider answers is an input:       *)
(*   [ok |-> FALSE]             the request fails, the status is not OK or *)
(*                              the body is not JSON (fetchJson throws)    *)
(*   [ok |-> TRUE, data |-> d]  the parsed JSON body d                     *)
(* A JSON array is [items |-> <<...>>].                                    *)
(***************************************************************************)
Failed == [ok |-> FALSE]
Answer(d) == [ok |-> TRUE, data |-> d]

codeToDirection(code) ==
    CASE code = Str(<<"2">>) -> "up"
      [] code = Str(<<"5">>) -> "down"
      [] code = Str(<<"3">>) -> "unchanged"
      [] OTHER -> "unchanged"

NullItem == [value |-> Null, change |-> Undefined]

\* the object literal built from a provider item by getKospi / getKosdaq /
\* getNasdaq / getExchange; status is the item's status object, delta its
\* delta string
SummaryItemOf_SignOfDelta(closePrice, status, delta, ratio) ==
    [value |-> closePrice,
     change |-> [direction |-> IF Falsy(delta) THEN "unchanged"
                               ELSE IF Head(delta.str) = "-" THEN "down" ELSE "up",
                 value |-> Or(delta, Str(<<>>)).str,
                 percent |-> IF Falsy(ratio) THEN <<>> ELSE ratio.str \o <<"%">>]]

SummaryItemOf(closePrice, status, delta, ratio) ==
    [value |-> closePrice,
     change |-> [direction |-> codeToDirection(IF status = Undefined THEN Undefined
                                               ELSE status.code),
                 value |-> Or(delta, Str(<<>>)).str,
                 percent |-> IF Falsy(ratio) THEN <<>> ELSE ratio.str \o <<"%">>]]

\* getKospi, getKosdaq and getNasdaq: the same code for three URLs
getIndex(resp) ==
    IF ~resp.ok THEN NullItem
    ELSE IF resp.data = Null THEN NullItem
    ELSE IF Falsy(resp.data.datas) \/ resp.data.datas.items = <<>> THEN NullItem
    ELSE LET item == resp.data.datas.items[1]
         IN  SummaryItemOf(item.closePrice, item.compareToPreviousPrice,
                           item.compareToPreviousClosePrice, item.fluctuationsRatio)

CACHE_TTL_MS == 60000

CacheFresh_Inclusive(cache, t) == ~Falsy(cache.data) /\ t - cache.timestamp <= CACHE_TTL_MS

CacheFresh(cache, t) == ~Falsy(cache.data) /\ t - cache.timestamp < CACHE_TTL_MS

\* getExchangeData after its await (scraper.ts 590-596): cache is
\* exchangeCache at that moment, t the value of now the call took at line 583
AfterFetch_ClearOnFailure(cache, t, resp) ==
    IF resp.ok
    THEN [data |-> resp.data, cache |-> [data |-> resp.data, timestamp |-> t]]
    ELSE [data |-> Null, cache |-> [data |-> Null, timestamp |-> 0]]

AfterFetch(cache, t, resp) ==
    IF resp.ok
    THEN [data |-> resp.data, cache |-> [data |-> resp.data, timestamp |-> t]]
    ELSE [data |-> Null, cache |-> cache]

\* getExchangeData: [data, cache, fetched]; resp is used only on a cache miss
getExchangeData(cache, t, resp) ==
    IF CacheFresh(cache, t)
    THEN [data |-> cache.data, cache |-> cache, fetched |-> FALSE]
    ELSE [data |-> AfterFetch(cache, t, resp).data,
          cache |-> AfterFetch(cache, t, resp).cache,
          fetched |-> TRUE]

Threw == [threw |-> TRUE]

ExchangeCodeOf ==
    [t \in {"usd", "eur", "jpy", "gbp", "chf", "cny"} |->
        CASE t = "usd" -> <<"USD">> [] t = "eur" -> <<"EUR">> [] t = "jpy" -> <<"JPY">>
          [] t = "gbp" -> <<"GBP">> [] t = "chf" -> <<"CHF">> [] t = "cny" -> <<"CNY">>]

\* getExchange after its await: Threw when data.result has no find method
\* (a truthy value that is not an array) or holds a null element before the match
getExchange(code, data) ==
    IF Falsy(data) THEN NullItem
    ELSE IF ~data.isSuccess \/ Falsy(data.result) THEN NullItem
    ELSE IF "notArray" \in DOMAIN data.result THEN Threw
    ELSE LET result == data.result.items
             hits == {i \in DOMAIN result : result[i] # Null /\ result[i].exchangeCode = Str(code)}
             nulls == {i \in DOMAIN result : result[i] = Null}
             first == CHOOSE i \in hits : \A j \in hits : i <= j
         IN  IF \E n \in nulls : hits = {} \/ n < first THEN Threw
             ELSE IF hits = {} THEN NullItem
             ELSE SummaryItemOf(result[first].closePrice, result[first].fluctuationsType,
                                result[first].fluctuations, result[first].fluctuationsRatio)

marketNames ==
    [t \in MarketTypes |->
        CASE t = "kospi" -> <<"uCF54", "uC2A4", "uD53C">>
          [] t = "kosdaq" -> <<"uCF54", "uC2A4", "uB2E5">>
          [] t = "nasdaq" -> <<"uB098", "uC2A4", "uB2E5">>
          [] t = "usd" -> <<"uB2EC", "uB7EC">>
          [] t = "jpy" -> <<"uC5D4", "uD654">>
          [] t = "eur" -> <<"uC720", "uB85C">>
          [] t = "gbp" -> <<"uD30C", "uC6B4", "uB4DC">>
          [] t = "chf" -> <<"uC2A4", "uC704", "uC2A4", "uD504", "uB791">>
          [] t = "cny" -> <<"uC704", "uC548">>]

IndexTypes == {"kospi", "kosdaq", "nasdaq"}

getMarketData_NoValueCheck(type, item) ==
    IF "str" \notin DOMAIN type \/ item = Threw THEN Threw
    ELSE [type |-> type.str, name |-> marketNames[type.str],
          value |-> item.value, change |-> item.change]

\* getMarketData after fetchers[type]() has settled with item; a type that is
\* no key of fetchers makes the call itself throw
getMarketData(type, item) ==
    IF "str" \notin DOMAIN type \/ item = Threw THEN Threw
    ELSE IF Falsy(item.value) THEN Null
    ELSE [type |-> type.str, name |-> marketNames[type.str],
          value |-> item.value, change |-> item.change]

SummaryKeys == {"kospi", "kosdaq", "usd", "eur", "jpy", "gbp", "chf", "cny"}
Currencies == {"usd", "eur", "jpy", "gbp", "chf", "cny"}

\* getDailyMarketSummary: the eight fetchers start together, so the six
\* getExchangeData calls all read exchangeCache before any of them writes it.
\* r gives each fetcher's answer; lastData is the body of the successful
\* exchange fetch that settles last (Undefined when none succeeds).
getDailyMarketSummary(cache, t, r, lastData) ==
    LET hit == CacheFresh(cache, t)
        items == [k \in SummaryKeys |->
                    IF k \in {"kospi", "kosdaq"} THEN getIndex(r[k])
                    ELSE getExchange(ExchangeCodeOf[k], getExchangeData(cache, t, r[k]).data)]
    IN  [summary |-> IF \E k \in SummaryKeys : items[k] = Threw THEN Threw ELSE items,
         cache |-> IF hit \/ lastData = Undefined THEN cache
                   ELSE [data |-> lastData, timestamp |-> t],
         requests |-> <<"naver:KOSPI", "naver:KOSDAQ">> \o
                      (IF hit THEN <<>> ELSE [i \in 1..6 |-> "naver:EXCHANGE"])]

LastData(cache, t, r) ==
    IF CacheFresh(cache, t) \/ ~\E c \in Currencies : r[c].ok THEN {Undefined}
    ELSE {r[c].data : c \in {x \in Currencies : r[x].ok}}

(***************************************************************************)
(* chart.ts: chart URL builder.  A chart URL is the record of what the     *)
(* URL encodes.                                                            *)
(***************************************************************************)
CHART_POINTS == 7

Reverse(q) == [i \in 1..Len(q) |-> q[Len(q) + 1 - i]]
SliceLast(q, n) == IF Len(q) <= n THEN q ELSE SubSeq(q, Len(q) - n + 1, Len(q))
SliceFirst(q, n) == IF Len(q) <= n THEN q ELSE SubSeq(q, 1, n)

PointOf(item) ==
    [date |-> <<item.localDate[2], "/", item.localDate[3]>>, value |-> item.closePrice]

fetchIndexChartData(resp) ==
    IF ~resp.ok THEN <<>>
    ELSE IF Falsy(resp.data.priceInfos) \/ resp.data.priceInfos.items = <<>> THEN <<>>
    ELSE LET recentData == SliceLast(resp.data.priceInfos.items, CHART_POINTS)
         IN  IF \E i \in 1..Len(recentData) : recentData[i] = Null
             THEN <<>>      \* item.localDate throws, caught at line 75
             ELSE [i \in 1..Len(recentData) |-> PointOf(recentData[i])]

fetchUsdChartData_NoReverse(resp) ==
    IF ~resp.ok THEN <<>>
    ELSE IF ~resp.data.isSuccess \/ Falsy(resp.data.result)
            \/ resp.data.result.items = <<>> THEN <<>>
    ELSE LET recentData == SliceFirst(resp.data.result.items, CHART_POINTS)
         IN  IF \E i \in 1..Len(recentData) : recentData[i] = Null
             THEN <<>>
             ELSE [i \in 1..Len(recentData) |-> PointOf(recentData[i])]

fetchUsdChartData(resp) ==
    IF ~resp.ok THEN <<>>
    ELSE IF ~resp.data.isSuccess \/ Falsy(resp.data.result)
            \/ resp.data.result.items = <<>> THEN <<>>
    ELSE LET recentData == Reverse(SliceFirst(resp.data.result.items, CHART_POINTS))
         IN  IF \E i \in 1..Len(recentData) : recentData[i] = Null
             THEN <<>>      \* item.localTradedAt throws, caught at line 117
             ELSE [i \in 1..Len(recentData) |-> PointOf(recentData[i])]

generateChartUrl(data, title) ==
    [title |-> title,
     labels |-> [i \in 1..Len(data) |-> data[i].date],
     values |-> [i \in 1..Len(data) |-> data[i].value]]

getKospiChartUrl(resp) ==
    LET data == fetchIndexChartData(resp)
    IN  IF Len(data) = 0 THEN Null ELSE generateChartUrl(data, "KOSPI")

getUsdChartUrl(resp) ==
    LET data == fetchUsdChartData(resp)
    IN  IF Len(data) = 0 THEN Null ELSE generateChartUrl(data, "USD/KRW")

getAllChartUrls(kospiResp, usdResp) ==
    [kospi |-> getKospiChartUrl(kospiResp), usd |-> getUsdChartUrl(usdResp)]

(***************************************************************************)
(* index.ts: the worker.  Inputs.                                          *)
(***************************************************************************)
MaxPoints == 9
MaxDeviating == 1

OtherTexts ==
    { <<"n", "o", "w">>,
      <<"N", "O", "W">>,
      <<"N", "o", "w">>,
      <<" ", "n", "o", "w", "\n">>,
      <<"n", "o", "w", " ", "p", "l", "e", "a", "s", "e">>,
      <<"?">>,
      <<"?", " ">>,
      <<"?", "a">>,
      <<" ", "?", "A", " ">>,
      <<"?", "?", " ", "a">>,
      <<"?", " ", "a", " ", "b", "\t">>,
      <<"a", "?">>,
      <<"K", "o", "s", "p", "i">>,
      <<" ", "k", "o", "s", "p", "i", " ">>,
      <<"k", "o", "s", "p", "i", " ", "n", "o", "w">>,
      <<"c", "o", "n", "s", "t", "r", "u", "c", "t", "o", "r">>,
      <<"t", "o", "S", "t", "r", "i", "n", "g">>,
      <<"_", "_", "p", "r", "o", "t", "o", "_", "_">>,
      <<"h", "e", "l", "l", "o">>,
      <<" ">>,
      <<"U", "s", "d">>,
      <<"uAE08">>,
      <<"g", "o", "l", "d">>,
      <<"G", "O", "L", "D">> }

Texts == commandMapKeys \cup OtherTexts

ChatIds == {100, 0 - 200}

\* Number.prototype.toString
NumToString(n) == IF n < 0 THEN <<"-">> \o Digits(0 - n) ELSE Digits(n)

Senders ==
    { [username |-> Str(<<"bob">>), first_name |-> Str(<<"Bob">>)],
      [username |-> Undefined, first_name |-> Str(<<"Ann">>)] }

Message(text, chat, from) == [text |-> text, chat |-> chat, from |-> from]

ASender == [username |-> Str(<<"bob">>), first_name |-> Str(<<"Bob">>)]

\* texts that are also sent from the other chat and by the other sender
VariedTexts ==
    { <<"n", "o", "w">>, <<"?", "a">>, <<"?">>, <<"k", "o", "s", "p", "i">>,
      <<"u", "s", "d">>, <<"c", "o", "n", "s", "t", "r", "u", "c", "t", "o", "r">>,
      <<"h", "e", "l", "l", "o">> }

Updates ==
    { [json |-> "invalid", message |-> Undefined],
      [json |-> "null", message |-> Undefined],
      [json |-> "object", message |-> Undefined],
      [json |-> "object", message |-> Message(Undefined, [id |-> 100], ASender)],
      [json |-> "object", message |-> Message(Str(<<>>), [id |-> 100], ASender)],
      [json |-> "object", message |-> Message(Str(<<"n", "o", "w">>), Undefined, Undefined)],
      [json |-> "object", message |-> Message(Str(<<"n", "o", "w">>), [id |-> 100], Undefined)] }
    \cup
    { [json |-> "object", message |-> Message(Str(t), [id |-> 100], ASender)] : t \in Texts }
    \cup
    { [json |-> "object", message |-> Message(Str(t), [id |-> c], f)] :
        t \in VariedTexts, c \in ChatIds, f \in Senders }

Requests ==
    { [kind |-> "scheduled", method |-> "-", path |-> "-", body |-> [json |-> "none", message |-> Undefined]] }
    \cup
    { [kind |-> "fetch", method |-> m, path |-> p, body |-> [json |-> "none", message |-> Undefined]] :
        m \in {"GET", "PUT"}, p \in {"/", "/test"} }
    \cup
    { [kind |-> "fetch", method |-> "POST", path |-> p, body |-> u] :
        p \in {"/"}, u \in Updates }
    \cup
    { [kind |-> "fetch", method |-> "POST", path |-> "/test",
       body |-> [json |-> "object", message |-> Message(Str(<<"h", "e", "l", "l", "o">>), [id |-> 100], ASender)]] }

Envs ==
    [TELEGRAM_BOT_TOKEN : {Undefined, Str(<<"T">>)},
     TELEGRAM_CHAT_ID : {Undefined, Str(<<"1", "0", "0">>)}]

\* ---- what the quote providers may answer ----
Array(q) == [items |-> q]

IndexItem(price, status, delta, ratio) ==
    [closePrice |-> price, compareToPreviousPrice |-> status,
     compareToPreviousClosePrice |-> delta, fluctuationsRatio |-> ratio]

ExchangeItem(code, price, status, delta, ratio) ==
    [exchangeCode |-> Str(code), closePrice |-> price, fluctuationsType |-> status,
     fluctuations |-> delta, fluctuationsRatio |-> ratio]

StatusCodes ==
    {Undefined} \cup {[code |-> Str(<<c>>)] : c \in {"2", "5", "3", "1"}}
Deltas == {Str(<<"1", ".", "5">>), Str(<<"-", "1", ".", "5">>), Undefined}
Ratios == {Str(<<"0", ".", "6">>), Undefined}
APrice == Str(<<"2", ",", "5", "0", "0">>)

IndexItems ==
    {IndexItem(APrice, st, d, r) : st \in StatusCodes, d \in Deltas, r \in Ratios}
    \cup {IndexItem(Str(<<>>), [code |-> Str(<<"2">>)], Str(<<"1", ".", "5">>), Undefined)}

IndexResponses ==
    {Failed, Answer(Null), Answer([datas |-> Undefined]), Answer([datas |-> Array(<<>>)])}
    \cup {Answer([datas |-> Array(<<it>>)]) : it \in IndexItems}

Table(ok, result) == Answer([isSuccess |-> ok, result |-> result])

OtherCode(code) == IF code = <<"USD">> THEN <<"EUR">> ELSE <<"USD">>

ExchangeResponses(code) ==
    {Failed, Answer(Null), Table(FALSE, Array(<<>>)), Table(TRUE, Undefined),
     Table(TRUE, [notArray |-> TRUE]), Table(TRUE, Array(<<>>)), Table(TRUE, Array(<<Null>>)),
     Table(TRUE, Array(<<ExchangeItem(OtherCode(code), APrice, Undefined, Undefined, Undefined)>>)),
     Table(FALSE, Array(<<ExchangeItem(code, APrice, Undefined, Undefined, Undefined)>>))}
    \cup
    {Table(TRUE, Array(<<ExchangeItem(OtherCode(code), APrice, [code |-> Str(<<"2">>)], Undefined, Undefined),
                         ExchangeItem(code, APrice, st, d, r)>>)) :
        st \in StatusCodes, d \in Deltas, r \in Ratios}
    \cup
    {Table(TRUE, Array(<<ExchangeItem(code, Undefined, [code |-> Str(<<"5">>)], Undefined, Undefined)>>))}

\* answers used for the eight fetchers of the daily summary
SummaryIndexResponses ==
    {Failed, Answer([datas |-> Array(<<>>)]),
     Answer([datas |-> Array(<<IndexItem(APrice, [code |-> Str(<<"2">>)], Str(<<"1", ".", "5">>), Str(<<"0", ".", "6">>))>>)])}

FullTable ==
    Table(TRUE, Array([i \in 1..6 |->
        ExchangeItem(<<<<"USD">>, <<"EUR">>, <<"JPY">>, <<"GBP">>, <<"CHF">>, <<"CNY">>>>[i],
                     APrice, [code |-> Str(<<"5">>)], Str(<<"-", "1", ".", "5">>), Str(<<"0", ".", "6">>))]))

SummaryExchangeResponses == {Failed, Table(TRUE, [notArray |-> TRUE]), FullTable}

\* The six exchange requests of one summary go to the same URL at the same
\* moment: they get the same answer, except for at most MaxDeviating of them.
ExchangePatterns ==
    { [c \in Currencies |-> IF c \in D THEN alt ELSE base] :
        base \in SummaryExchangeResponses, alt \in SummaryExchangeResponses,
        D \in {S \in SUBSET Currencies : Cardinality(S) <= MaxDeviating} }

SummaryResponses ==
    { [k \in SummaryKeys |-> IF k = "kospi" THEN a ELSE IF k = "kosdaq" THEN b ELSE x[k]] :
        a \in SummaryIndexResponses, b \in SummaryIndexResponses, x \in ExchangePatterns }

\* chart series: day i closes at 100 + i; KOSPI is delivered oldest first,
\* USD newest first
ChartLens == {0, 3, MaxPoints}
ChartItem(i) == [localDate |-> <<"2025", "11", Digits(i)>>, closePrice |-> 100 + i]
KospiSeries(n) == [i \in 1..n |-> ChartItem(i)]
UsdSeries(n) == [i \in 1..n |-> ChartItem(n + 1 - i)]

KospiChartResponses ==
    {Failed, Answer([priceInfos |-> Undefined])}
    \cup {Answer([priceInfos |-> Array(KospiSeries(n))]) : n \in ChartLens}

UsdChartResponses ==
    {Failed, Answer([isSuccess |-> FALSE, result |-> Array(UsdSeries(3))]),
     Answer([isSuccess |-> TRUE, result |-> Undefined])}
    \cup {Answer([isSuccess |-> TRUE, result |-> Array(UsdSeries(n))]) : n \in ChartLens}

(***************************************************************************)
(* index.ts: the worker.  One event is handled from "start" to "done".     *)
(***************************************************************************)
LocInit ==
    [handler |-> "none", update |-> Null, chatId |-> Undefined, username |-> Undefined,
     rawCommand |-> Undefined, branch |-> "none", query |-> Undefined,
     marketType |-> Undefined, item |-> Undefined, marketData |-> Undefined,
     lookup |-> "none", yahooResult |-> Undefined, charts |-> Undefined,
     marketSummary |-> Undefined, error |-> FALSE]

HookInit ==
    /\ request \in Requests
    /\ env \in Envs
    /\ pc = "start"
    /\ response = NotRun
    /\ tg = <<>>
    /\ req = <<>>
    /\ loc = LocInit
    /\ exchangeCache = [data |-> Null, timestamp |-> 0]
    /\ now = 2 * CACHE_TTL_MS

Status(n) == [status |-> n]

\* the branch the webhook takes for a trimmed command (index.ts 100-165)
SelectBranch_LowerCased(rawCommand) ==
    IF toLowerCase(rawCommand) = <<"n", "o", "w">> THEN "now"
    ELSE IF startsWith(rawCommand, "?") THEN "search"
    ELSE IF parseCommand(toLowerCase(rawCommand)) # Null THEN "quote"
    ELSE "ignore"

SelectBranch(rawCommand) ==
    IF toLowerCase(rawCommand) = <<"n", "o", "w">> THEN "now"
    ELSE IF startsWith(rawCommand, "?") THEN "search"
    ELSE IF parseCommand(rawCommand) # Null THEN "quote"
    ELSE "ignore"

\* the synchronous head of the webhook (index.ts 74-98): "error" when it
\* throws, "ignored" when it returns 200 at once, "branch" otherwise
ParseWebhook(e, body) ==
    LET message == body.message
        none == [outcome |-> "error", update |-> Null, chatId |-> Undefined,
                 username |-> Undefined, rawCommand |-> Undefined]
    IN  IF Falsy(e.TELEGRAM_BOT_TOKEN) THEN none
        ELSE IF body.json = "invalid" THEN none
        ELSE IF body.json = "null" THEN none
        ELSE IF Falsy(message) \/ Falsy(message.text)
             THEN [none EXCEPT !.outcome = "ignored", !.update = body]
        ELSE IF message.chat = Undefined
             THEN [none EXCEPT !.update = body]
        ELSE IF Falsy(message.from)
             THEN [none EXCEPT !.outcome = "ignored", !.update = body]
        ELSE [outcome |-> "branch", update |-> body,
              chatId |-> Str(NumToString(message.chat.id)),
              username |-> Or(message.from.username, message.from.first_name),
              rawCommand |-> Str(trim(message.text.str))]

\* the condition of the catch block (index.ts 183)
NoticeDue(l) ==
    /\ l.update # Null
    /\ ~Falsy(l.update.message)
    /\ l.update.message.chat # Undefined
    /\ l.update.message.chat.id # 0
    /\ ~Falsy(env.TELEGRAM_BOT_TOKEN)

\* an exception reaches the handler's catch block
Raise(l) ==
    /\ loc' = [l EXCEPT !.error = TRUE]
    /\ CASE l.handler = "test" -> pc' = "done" /\ response' = Status(500)
         [] l.handler = "scheduled" -> pc' = "done" /\ UNCHANGED response
         [] l.handler = "webhook" ->
                IF NoticeDue(l) THEN pc' = "notice" /\ UNCHANGED response
                ELSE pc' = "done" /\ response' = Status(200)

\* TelegramBot: the chat a call goes to is chatId || this.defaultChatId
DefaultChatId(l) ==
    IF l.handler = "webhook" THEN Or(env.TELEGRAM_CHAT_ID, l.chatId)
    ELSE env.TELEGRAM_CHAT_ID

ChatIdArg(l) == IF l.handler = "webhook" THEN l.chatId ELSE Undefined

\* callApi: outcome "ok" / "not_ok" is the ok flag of the API's answer,
\* "throw" a rejected fetch or a body that is not JSON
TgOutcomes == {"ok", "not_ok", "throw"}

ApiCall_DefaultFirst(l, method, kind, payload, outcome) ==
    [method |-> method, chat_id |-> Or(DefaultChatId(l), ChatIdArg(l)),
     kind |-> kind, payload |-> payload, outcome |-> outcome]

ApiCall(l, method, kind, payload, outcome) ==
    [method |-> method, chat_id |-> Or(ChatIdArg(l), DefaultChatId(l)),
     kind |-> kind, payload |-> payload, outcome |-> outcome]

\* fetch(request, env, ctx) up to its first await on an outbound call
Fetch ==
    /\ pc = "start"
    /\ request.kind = "fetch"
    /\ UNCHANGED <<request, env, tg, req, exchangeCache, now>>
    /\ IF request.method = "GET" /\ request.path = "/test"
       THEN IF Falsy(env.TELEGRAM_BOT_TOKEN) \/ Falsy(env.TELEGRAM_CHAT_ID)
            THEN /\ loc' = [loc EXCEPT !.handler = "test", !.error = TRUE]
                 /\ pc' = "done"
                 /\ response' = Status(500)
            ELSE /\ loc' = [loc EXCEPT !.handler = "test", !.branch = "now"]
                 /\ pc' = "charts"
                 /\ UNCHANGED response
       ELSE IF request.method # "POST"
       THEN /\ loc' = [loc EXCEPT !.handler = "other"]
            /\ pc' = "done"
            /\ response' = Status(405)
       ELSE LET p == ParseWebhook(env, request.body)
                l == [loc EXCEPT !.handler = "webhook", !.update = p.update,
                                 !.chatId = p.chatId, !.username = p.username,
                                 !.rawCommand = p.rawCommand]
            IN  CASE p.outcome = "error" -> Raise(l)
                  [] p.outcome = "ignored" ->
                        /\ loc' = l
                        /\ pc' = "done"
                        /\ response' = Status(200)
                  [] p.outcome = "branch" ->
                        LET b == SelectBranch(p.rawCommand.str)
                            q == parseSearchCommand(p.rawCommand.str)
                        IN  /\ loc' = [l EXCEPT !.branch = b,
                                                !.query = IF b = "search" THEN q ELSE Undefined,
                                                !.marketType = IF b = "quote"
                                                               THEN parseCommand(p.rawCommand.str)
                                                               ELSE Undefined]
                            /\ pc' = CASE b = "now" -> "charts"
                                       [] b = "search" -> IF q = Null THEN "warn_empty" ELSE "lookup"
                                       [] b = "quote" -> "quote"
                                       [] b = "ignore" -> "done"
                            /\ response' = IF b = "ignore" THEN Status(200) ELSE response

Scheduled_TokenOnly ==
    /\ pc = "start"
    /\ request.kind = "scheduled"
    /\ UNCHANGED <<request, env, tg, req, response, exchangeCache, now>>
    /\ IF Falsy(env.TELEGRAM_BOT_TOKEN)
       THEN /\ loc' = [loc EXCEPT !.handler = "scheduled", !.error = TRUE]
            /\ pc' = "done"
       ELSE /\ loc' = [loc EXCEPT !.handler = "scheduled", !.branch = "now"]
            /\ pc' = "gather"

\* scheduled(event, env, ctx) up to the Promise.all
Scheduled ==
    /\ pc = "start"
    /\ request.kind = "scheduled"
    /\ UNCHANGED <<request, env, tg, req, response, exchangeCache, now>>
    /\ IF Falsy(env.TELEGRAM_BOT_TOKEN) \/ Falsy(env.TELEGRAM_CHAT_ID)
       THEN /\ loc' = [loc EXCEPT !.handler = "scheduled", !.error = TRUE]
            /\ pc' = "done"
       ELSE /\ loc' = [loc EXCEPT !.handler = "scheduled", !.branch = "now"]
            /\ pc' = "gather"

ChartRequests == <<"chart:KOSPI", "chart:USD">>

\* await getAllChartUrls()   (GET /test and the 'now' command)
GetAllChartUrls ==
    /\ pc = "charts"
    /\ \E k \in KospiChartResponses, u \in UsdChartResponses :
          loc' = [loc EXCEPT !.charts = getAllChartUrls(k, u)]
    /\ req' = req \o ChartRequests
    /\ pc' = "photo_kospi"
    /\ UNCHANGED <<request, env, response, tg, exchangeCache, now>>

\* await Promise.all([getAllChartUrls(), getDailyMarketSummary()])   (scheduled)
Gather ==
    /\ pc = "gather"
    /\ req' = req \o ChartRequests \o
              getDailyMarketSummary(exchangeCache, now, CHOOSE r \in SummaryResponses : TRUE, Undefined).requests
    /\ \E k \in KospiChartResponses, u \in UsdChartResponses, r \in SummaryResponses :
       \E w \in LastData(exchangeCache, now, r) :
          LET s == getDailyMarketSummary(exchangeCache, now, r, w)
          IN  /\ exchangeCache' = s.cache
              /\ IF s.summary = Threw
                 THEN Raise([loc EXCEPT !.item = r])
                 ELSE /\ loc' = [loc EXCEPT !.charts = getAllChartUrls(k, u),
                                            !.marketSummary = s.summary, !.item = r]
                      /\ pc' = "photo_kospi"
                      /\ UNCHANGED response
    /\ UNCHANGED <<request, env, tg, now>>

SendKospiChart_NoNullCheck ==
    /\ pc = "photo_kospi"
    /\ UNCHANGED <<request, env, req, exchangeCache, now>>
    /\ \E o \in TgOutcomes :
          /\ tg' = Append(tg, ApiCall(loc, "sendPhoto", "kospi_chart",
                                      [photo |-> loc.charts.kospi], o))
          /\ IF o = "throw" THEN Raise(loc)
             ELSE pc' = "photo_usd" /\ UNCHANGED <<loc, response>>

\* sendChartImages, first photo (telegram.ts 203-208)
SendKospiChart ==
    /\ pc = "photo_kospi"
    /\ UNCHANGED <<request, env, req, exchangeCache, now>>
    /\ IF loc.charts.kospi = Null
       THEN /\ pc' = "photo_usd"
            /\ UNCHANGED <<tg, loc, response>>
       ELSE \E o \in TgOutcomes :
              /\ tg' = Append(tg, ApiCall(loc, "sendPhoto", "kospi_chart",
                                          [photo |-> loc.charts.kospi], o))
              /\ IF o = "throw" THEN Raise(loc)
                 ELSE pc' = "photo_usd" /\ UNCHANGED <<loc, response>>

\* sendChartImages, second photo (telegram.ts 210-215)
SendUsdChart ==
    /\ pc = "photo_usd"
    /\ UNCHANGED <<request, env, req, exchangeCache, now>>
    /\ LET next == IF loc.handler = "scheduled" THEN "send_daily" ELSE "summary"
       IN  IF loc.charts.usd = Null
           THEN /\ pc' = next
                /\ UNCHANGED <<tg, loc, response>>
           ELSE \E o \in TgOutcomes :
                  /\ tg' = Append(tg, ApiCall(loc, "sendPhoto", "usd_chart",
                                              [photo |-> loc.charts.usd], o))
                  /\ IF o = "throw" THEN Raise(loc)
                     ELSE pc' = next /\ UNCHANGED <<loc, response>>

\* await getDailyMarketSummary()   (GET /test and the 'now' command)
GetDailyMarketSummary ==
    /\ pc = "summary"
    /\ req' = req \o
              getDailyMarketSummary(exchangeCache, now, CHOOSE r \in SummaryResponses : TRUE, Undefined).requests
    /\ \E r \in SummaryResponses :
       \E w \in LastData(exchangeCache, now, r) :
          LET s == getDailyMarketSummary(exchangeCache, now, r, w)
          IN  /\ exchangeCache' = s.cache
              /\ IF s.summary = Threw
                 THEN Raise([loc EXCEPT !.item = r])
                 ELSE /\ loc' = [loc EXCEPT !.marketSummary = s.summary, !.item = r]
                      /\ pc' = "send_daily"
                      /\ UNCHANGED response
    /\ UNCHANGED <<request, env, tg, now>>

\* await bot.sendDailyMarketMessage(marketSummary, ...)
SendDailyMarketMessage ==
    /\ pc = "send_daily"
    /\ UNCHANGED <<request, env, req, exchangeCache, now>>
    /\ \E o \in TgOutcomes :
          /\ tg' = Append(tg, ApiCall(loc, "sendMessage", "daily",
                                      [data |-> loc.marketSummary], o))
          /\ IF o = "throw" THEN Raise(loc)
             ELSE /\ pc' = "done"
                  /\ UNCHANGED loc
                  /\ response' = CASE loc.handler = "webhook" -> Status(200)
                                   [] loc.handler = "test" ->
                                        IF o = "ok" THEN Status(200) ELSE Status(500)
                                   [] loc.handler = "scheduled" -> response

(***************************************************************************)
(* Global-quote lookup.  scraper.ts exports getYahooMarketData, which      *)
(* index.ts imports; index.ts also carries a second definition of the same *)
(* name (529-559) that asks the JSON quote and search APIs.                *)
(***************************************************************************)
PageOf(ph, ca, st, sk, tr) ==
    [status |-> "200", bodyFails |-> FALSE, phrases |-> ph, canonical |-> ca,
     streamers |-> st, sveltekit |-> sk, trending |-> tr,
     heading |-> Undefined, htmlType |-> Undefined]

NoStreamers == [f \in Fields |-> <<>>]
NoTrending == Script("absent", <<>>)

HookPages ==
    { NoBodyPage("throw"), NoBodyPage("404"), NoBodyPage("500"),
      PageOf({}, Undefined, [f \in Fields |-> <<Node(<<"A">>, Num(11), Str(<<>>))>>], <<>>, NoTrending),
      PageOf({}, Undefined, NoStreamers,
             <<Script("results", <<Item(Str(<<"a">>), Num(21), Num(-21), Num(-2))>>)>>, NoTrending),
      PageOf({Phrase("requested symbol wasn", FALSE)}, Undefined, NoStreamers, <<>>, NoTrending),
      PageOf({Phrase("too many requests", TRUE)}, Undefined, NoStreamers, <<>>, NoTrending),
      PageOf({}, Undefined, NoStreamers, <<>>, NoTrending) }

\* scraper.ts 474-481
getYahooMarketData_JsonFirst(query, page) ==
    LET trimmedQuery == trim(query)
    IN  IF trimmedQuery = <<>>
        THEN [result |-> NotFound(query), requests |-> <<>>]
        ELSE [result |-> fetchYahooQuotePage(trimmedQuery, page),
              requests |-> <<"yahoo:quote-api", "yahoo:page">>]

getYahooMarketData(query, page) ==
    LET trimmedQuery == trim(query)
    IN  IF trimmedQuery = <<>>
        THEN [result |-> NotFound(query), requests |-> <<>>]
        ELSE [result |-> fetchYahooQuotePage(trimmedQuery, page),
              requests |-> <<"yahoo:page">>]

\* ---- the definitions in index.ts ----
YAHOO_SUPPORTED_TYPES == {<<"EQUITY">>, <<"INDEX">>, <<"CRYPTOCURRENCY">>}

\* an answer of a Yahoo JSON API: a rejected fetch, or a status with a body
Rejected == [status |-> "throw", body |-> Null]
Http(status, body) == [status |-> status, body |-> body]

QuoteItem(sym, type, price) ==
    [symbol |-> sym, quoteType |-> Str(type), longName |-> Str(<<"Name">>),
     regularMarketPrice |-> price, regularMarketChange |-> Num(-2),
     regularMarketChangePercent |-> Num(-1)]

JsonQuoteAnswers(sym) ==
    { Rejected, Http("404", Null), Http("500", Null), Http("200", <<>>),
      Http("200", <<QuoteItem(sym, <<"MUTUALFUND">>, Num(150))>>),
      Http("200", <<QuoteItem(sym, <<"EQUITY">>, Undefined)>>),
      Http("200", <<QuoteItem(<<"Z">>, <<"INDEX">>, Num(150)), QuoteItem(sym, <<"EQUITY">>, Num(1500))>>) }

JsonSearchAnswers ==
    { Rejected, Http("404", Null), Http("500", Null), Http("200", <<>>),
      Http("200", <<[symbol |-> <<"Z">>, quoteType |-> Str(<<"MUTUALFUND">>)]>>),
      Http("200", <<[symbol |-> <<"Z">>, quoteType |-> Str(<<"MUTUALFUND">>)],
                    [symbol |-> <<"A">>, quoteType |-> Str(<<"EQUITY">>)]>>) }

toYahooMarketData(item) ==
    IF Or(item.quoteType, Str(<<>>)).str \notin YAHOO_SUPPORTED_TYPES THEN Null
    ELSE IF ~IsFinite(item.regularMarketPrice) THEN Null
    ELSE LET symbol == item.symbol
             baseName == Or(item.longName, Str(symbol)).str
         IN  [symbol |-> symbol,
              name |-> IF baseName = symbol THEN Str(symbol)
                       ELSE Str(baseName \o <<" ", "(">> \o symbol \o <<")">>),
              value |-> formatYahooPrice(item.regularMarketPrice.num),
              change |-> toYahooChangeInfo(item.regularMarketChange,
                                           item.regularMarketChangePercent),
              sourceUrl |-> <<"quote", "/">> \o symbol,
              assetType |-> toYahooAssetType(item.quoteType)]

fetchYahooQuoteBySymbol(symbol, answer) ==
    LET normalizedSymbol == trim(symbol)
        results == answer.body
        exact == {i \in DOMAIN results :
                    toUpperCase(results[i].symbol) = toUpperCase(normalizedSymbol)}
        candidate == IF exact # {} THEN results[CHOOSE i \in exact : \A j \in exact : i <= j]
                     ELSE results[1]
    IN  IF normalizedSymbol = <<>> THEN NotFound(symbol)
        ELSE IF answer.status = "throw" THEN LookupError(normalizedSymbol, "quote API error")
        ELSE IF answer.status = "404" THEN NotFound(normalizedSymbol)
        ELSE IF answer.status # "200" THEN LookupError(normalizedSymbol, "quote API failed")
        ELSE IF results = <<>> THEN NotFound(normalizedSymbol)
        ELSE IF toYahooMarketData(candidate) = Null THEN NotFound(normalizedSymbol)
        ELSE [status |-> "ok", data |-> toYahooMarketData(candidate)]

\* Str(symbol), Null, or Threw
searchYahooSymbol(query, answer) ==
    LET quotes == answer.body
        supported == {i \in DOMAIN quotes : quotes[i].quoteType.str \in YAHOO_SUPPORTED_TYPES}
        exact == {i \in supported : toUpperCase(quotes[i].symbol) = toUpperCase(query)}
        first(S) == CHOOSE i \in S : \A j \in S : i <= j
    IN  IF answer.status = "throw" THEN Threw
        ELSE IF answer.status = "404" THEN Null
        ELSE IF answer.status # "200" THEN Threw
        ELSE IF supported = {} THEN Null
        ELSE Str(quotes[IF exact # {} THEN first(exact) ELSE first(supported)].symbol)

\* index.ts 529-559
getYahooMarketDataIndexCopy(query, direct, search, second) ==
    LET trimmedQuery == trim(query)
        directLookup == fetchYahooQuoteBySymbol(toUpperCase(trimmedQuery), direct)
        symbol == searchYahooSymbol(trimmedQuery, search)
    IN  IF trimmedQuery = <<>> THEN [result |-> NotFound(query), requests |-> <<>>]
        ELSE IF directLookup.status \in {"ok", "error"}
             THEN [result |-> directLookup, requests |-> <<"yahoo:quote-api">>]
        ELSE IF symbol = Threw
             THEN [result |-> LookupError(trimmedQuery, "search API error"),
                   requests |-> <<"yahoo:quote-api", "yahoo:search-api">>]
        ELSE IF symbol = Null
             THEN [result |-> NotFound(trimmedQuery),
                   requests |-> <<"yahoo:quote-api", "yahoo:search-api">>]
        ELSE [result |-> fetchYahooQuoteBySymbol(symbol.str, second),
              requests |-> <<"yahoo:quote-api", "yahoo:search-api", "yahoo:quote-api">>]

\* await bot.sendMessage('... empty query ...')   (index.ts 117-124)
WarnEmptyQuery ==
    /\ pc = "warn_empty"
    /\ UNCHANGED <<request, env, req, exchangeCache, now>>
    /\ \E o \in TgOutcomes :
          /\ tg' = Append(tg, ApiCall(loc, "sendMessage", "warn_empty", [text |-> "empty"], o))
          /\ IF o = "throw" THEN Raise(loc)
             ELSE pc' = "done" /\ response' = Status(200) /\ UNCHANGED loc

\* await getYahooMarketData(query), as exported by scraper.ts
YahooLookup ==
    /\ pc = "lookup"
    /\ \E page \in HookPages :
          LET r == getYahooMarketData(loc.query.str, page)
          IN  /\ loc' = [loc EXCEPT !.yahooResult = r.result, !.lookup = "scraper.ts",
                                     !.item = page]
              /\ req' = req \o r.requests
    /\ pc' = "reply_search"
    /\ UNCHANGED <<request, env, tg, response, exchangeCache, now>>

\* await getYahooMarketData(query), as defined in index.ts
YahooLookupIndexCopy ==
    /\ pc = "lookup"
    /\ \E d \in JsonQuoteAnswers(<<"A">>), sr \in JsonSearchAnswers,
          d2 \in JsonQuoteAnswers(<<"A">>) :
          LET r == getYahooMarketDataIndexCopy(loc.query.str, d, sr, d2)
          IN  /\ loc' = [loc EXCEPT !.yahooResult = r.result, !.lookup = "index.ts"]
              /\ req' = req \o r.requests
    /\ pc' = "reply_search"
    /\ UNCHANGED <<request, env, tg, response, exchangeCache, now>>

\* the reply of the search branch (index.ts 128-156)
ReplySearch ==
    /\ pc = "reply_search"
    /\ UNCHANGED <<request, env, req, exchangeCache, now>>
    /\ \E o \in TgOutcomes :
          LET r == loc.yahooResult
              call == CASE r.status = "not_found" ->
                            ApiCall(loc, "sendMessage", "warn_not_found", [query |-> loc.query], o)
                        [] r.status = "error" ->
                            ApiCall(loc, "sendMessage", "warn_yahoo", [text |-> "error"], o)
                        [] r.status = "ok" ->
                            ApiCall(loc, "sendMessage", "quote",
                                    [username |-> loc.username, name |-> r.data.name,
                                     value |-> Str(r.data.value),
                                     changeText |-> formatChange(r.data.change)], o)
          IN  /\ tg' = Append(tg, call)
              /\ IF o = "throw" THEN Raise(loc)
                 ELSE pc' = "done" /\ response' = Status(200) /\ UNCHANGED loc

IndexRequest ==
    [t \in IndexTypes |->
        CASE t = "kospi" -> "naver:KOSPI" [] t = "kosdaq" -> "naver:KOSDAQ"
          [] t = "nasdaq" -> "naver:NASDAQ"]

\* await getMarketData(marketType)   (index.ts 168)
GetMarketData ==
    /\ pc = "quote"
    /\ UNCHANGED <<request, env, tg, now>>
    /\ LET type == loc.marketType
       IN  IF "str" \notin DOMAIN type
           THEN /\ Raise(loc)
                /\ UNCHANGED <<req, exchangeCache>>
           ELSE IF type.str \in IndexTypes
           THEN \E resp \in IndexResponses :
                   LET md == getMarketData(type, getIndex(resp))
                   IN  /\ req' = Append(req, IndexRequest[type.str])
                       /\ UNCHANGED exchangeCache
                       /\ loc' = [loc EXCEPT !.item = resp, !.marketData = md]
                       /\ pc' = "reply_quote"
                       /\ UNCHANGED response
           ELSE \E resp \in ExchangeResponses(ExchangeCodeOf[type.str]) :
                   LET d == getExchangeData(exchangeCache, now, resp)
                       md == getMarketData(type, getExchange(ExchangeCodeOf[type.str], d.data))
                   IN  /\ req' = IF d.fetched THEN Append(req, "naver:EXCHANGE") ELSE req
                       /\ exchangeCache' = d.cache
                       /\ IF md = Threw
                          THEN Raise([loc EXCEPT !.item = resp])
                          ELSE /\ loc' = [loc EXCEPT !.item = resp, !.marketData = md]
                               /\ pc' = "reply_quote"
                               /\ UNCHANGED response

\* the reply of the quote branch (index.ts 170-178)
ReplyQuote ==
    /\ pc = "reply_quote"
    /\ UNCHANGED <<request, env, req, exchangeCache, now>>
    /\ \E o \in TgOutcomes :
          LET md == loc.marketData
              call == IF md = Null
                      THEN ApiCall(loc, "sendMessage", "warn_failed", [text |-> "failed"], o)
                      ELSE ApiCall(loc, "sendMessage", "quote",
                                   [username |-> loc.username, name |-> Str(md.name),
                                    value |-> md.value,
                                    changeText |-> formatChange(md.change)], o)
          IN  /\ tg' = Append(tg, call)
              /\ IF o = "throw" THEN Raise(loc)
                 ELSE pc' = "done" /\ response' = Status(200) /\ UNCHANGED loc

\* the catch block of the webhook (index.ts 179-198); a throw is swallowed
SendErrorNotice_Rethrow ==
    /\ pc = "notice"
    /\ UNCHANGED <<request, env, req, loc, exchangeCache, now>>
    /\ \E o \in TgOutcomes :
          /\ tg' = Append(tg, [method |-> "sendMessage",
                               chat_id |-> Str(NumToString(loc.update.message.chat.id)),
                               kind |-> "error_notice", payload |-> [text |-> "error"],
                               outcome |-> o])
          /\ pc' = "done"
          /\ response' = IF o = "throw" THEN Status(500) ELSE Status(200)

SendErrorNotice ==
    /\ pc = "notice"
    /\ UNCHANGED <<request, env, req, loc, exchangeCache, now>>
    /\ \E o \in TgOutcomes :
          /\ tg' = Append(tg, [method |-> "sendMessage",
                               chat_id |-> Str(NumToString(loc.update.message.chat.id)),
                               kind |-> "error_notice", payload |-> [text |-> "error"],
                               outcome |-> o])
          /\ pc' = "done"
          /\ response' = Status(200)

(***************************************************************************)
(* Specifications                                                          *)
(***************************************************************************)
PgIdle ==
    /\ pgSymbol = <<>>
    /\ pgPage = Null
    /\ pgPc = "idle"
    /\ pgLocals = Null
    /\ pgResult = NotRun

FmtIdle ==
    /\ fmtChange = Undefined
    /\ fmtResult = NotRun

HookIdle ==
    /\ request = [kind |-> "none"]
    /\ env = [TELEGRAM_BOT_TOKEN |-> Undefined, TELEGRAM_CHAT_ID |-> Undefined]
    /\ pc = "idle"
    /\ response = NotRun
    /\ tg = <<>>
    /\ req = <<>>
    /\ loc = LocInit
    /\ exchangeCache = [data |-> Null, timestamp |-> 0]
    /\ now = 0

ChIdle ==
    /\ chKospi = Failed
    /\ chUsd = Failed
    /\ chPc = "idle"
    /\ chUrls = NotRun

ExIdle ==
    /\ exCalls = <<>>
    /\ exWriter = 0
    /\ exTicks = 0

\* the worker handling one event
Init == HookInit /\ FmtIdle /\ PgIdle /\ ChIdle /\ ExIdle
Next ==
    \/ Fetch /\ UNCHANGED <<fmtVars, pgVars, chVars, exVars>>
    \/ Scheduled /\ UNCHANGED <<fmtVars, pgVars, chVars, exVars>>
    \/ GetAllChartUrls /\ UNCHANGED <<fmtVars, pgVars, chVars, exVars>>
    \/ Gather /\ UNCHANGED <<fmtVars, pgVars, chVars, exVars>>
    \/ SendKospiChart /\ UNCHANGED <<fmtVars, pgVars, chVars, exVars>>
    \/ SendUsdChart /\ UNCHANGED <<fmtVars, pgVars, chVars, exVars>>
    \/ GetDailyMarketSummary /\ UNCHANGED <<fmtVars, pgVars, chVars, exVars>>
    \/ SendDailyMarketMessage /\ UNCHANGED <<fmtVars, pgVars, chVars, exVars>>
    \/ WarnEmptyQuery /\ UNCHANGED <<fmtVars, pgVars, chVars, exVars>>
    \/ YahooLookup /\ UNCHANGED <<fmtVars, pgVars, chVars, exVars>>
    \/ YahooLookupIndexCopy /\ UNCHANGED <<fmtVars, pgVars, chVars, exVars>>
    \/ ReplySearch /\ UNCHANGED <<fmtVars, pgVars, chVars, exVars>>
    \/ GetMarketData /\ UNCHANGED <<fmtVars, pgVars, chVars, exVars>>
    \/ ReplyQuote /\ UNCHANGED <<fmtVars, pgVars, chVars, exVars>>
    \/ SendErrorNotice /\ UNCHANGED <<fmtVars, pgVars, chVars, exVars>>
Spec == Init /\ [][Next]_vars

\* formatChange on its own
InitFormat == FmtInit /\ PgIdle /\ HookIdle /\ ChIdle /\ ExIdle
NextFormat == FormatChange /\ UNCHANGED <<pgVars, hookVars, chVars, exVars>>
SpecFormat == InitFormat /\ [][NextFormat]_vars

\* fetchYahooQuotePage on its own
InitPage == PgInit /\ FmtIdle /\ HookIdle /\ ChIdle /\ ExIdle
NextPage ==
    \/ PgFetch /\ UNCHANGED <<fmtVars, hookVars, chVars, exVars>>
    \/ PgReturn /\ UNCHANGED <<fmtVars, hookVars, chVars, exVars>>
SpecPage == InitPage /\ [][NextPage]_vars

\* getAllChartUrls on its own.  The series has 0..MaxPoints days; an entry
\* may be null at the old end of the series.
KospiChartAnswers ==
    {Failed, Answer([priceInfos |-> Undefined])}
    \cup {Answer([priceInfos |-> Array(KospiSeries(n))]) : n \in 0..MaxPoints}
    \cup {Answer([priceInfos |-> Array(<<Null>> \o KospiSeries(n))]) : n \in {3, MaxPoints}}

UsdChartAnswers ==
    {Failed, Answer([isSuccess |-> FALSE, result |-> Array(UsdSeries(3))]),
     Answer([isSuccess |-> TRUE, result |-> Undefined])}
    \cup {Answer([isSuccess |-> TRUE, result |-> Array(UsdSeries(n))]) : n \in 0..MaxPoints}
    \cup {Answer([isSuccess |-> TRUE, result |-> Array(UsdSeries(n) \o <<Null>>)]) :
            n \in {3, MaxPoints}}

ChInit ==
    /\ chKospi \in KospiChartAnswers
    /\ chUsd \in UsdChartAnswers
    /\ chPc = "call"
    /\ chUrls = NotRun

\* await getAllChartUrls()
ChGetAllChartUrls ==
    /\ chPc = "call"
    /\ chUrls' = getAllChartUrls(chKospi, chUsd)
    /\ chPc' = "returned"
    /\ UNCHANGED <<chKospi, chUsd>>

InitChart == ChInit /\ FmtIdle /\ PgIdle /\ HookIdle /\ ExIdle
NextChart == ChGetAllChartUrls /\ UNCHANGED <<fmtVars, pgVars, hookVars, exVars>>
SpecChart == InitChart /\ [][NextChart]_vars

\* Concurrent getExchange calls on one isolate.  A call runs from its start
\* to its await of fetch without interruption (ExStart) and from the fetch's
\* settling to its return (ExFinish); other calls and the clock move between.
\* A call's record keeps what it saw: sawWriter and sawCache at its start,
\* found and left for exchangeCache before and after its fetch settled.
MaxCalls == 2
MaxTicks == 2

\* the currency of the i-th call: the six of getDailyMarketSummary in turn
ExCodeOf(i) == <<"usd", "eur", "jpy", "gbp", "chf", "cny">>[((i - 1) % 6) + 1]

ExAnswerKinds == {"failed", "table", "notSuccess", "nullBody"}

\* the table the endpoint answers to the fetch of call i: its prices tell
\* which fetch it came from
TableFor(i, ok) ==
    Table(ok, Array([k \in 1..6 |->
        ExchangeItem(<<<<"USD">>, <<"EUR">>, <<"JPY">>, <<"GBP">>, <<"CHF">>, <<"CNY">>>>[k],
                     Str(Digits(i)), [code |-> Str(<<"2">>)],
                     Str(<<"1", ".", "5">>), Str(<<"0", ".", "6">>))]))

ExAnswer(i, kind) ==
    CASE kind = "failed" -> Failed
      [] kind = "table" -> TableFor(i, TRUE)
      [] kind = "notSuccess" -> TableFor(i, FALSE)
      [] kind = "nullBody" -> Answer(Null)

ExInit ==
    /\ exCalls = <<>>
    /\ exWriter = 0
    /\ exTicks = 0
    /\ exchangeCache = [data |-> Null, timestamp |-> 0]
    /\ now = 2 * CACHE_TTL_MS
    /\ req = <<>>
    /\ request = [kind |-> "none"]
    /\ env = [TELEGRAM_BOT_TOKEN |-> Undefined, TELEGRAM_CHAT_ID |-> Undefined]
    /\ pc = "idle"
    /\ response = NotRun
    /\ tg = <<>>
    /\ loc = LocInit

\* time passes
ExTick ==
    /\ exTicks < MaxTicks
    /\ \E d \in {1, CACHE_TTL_MS - 1} : now' = now + d
    /\ exTicks' = exTicks + 1
    /\ UNCHANGED <<exCalls, exWriter, exchangeCache, req>>

\* getExchange(code) up to the return of the cached data or the await of fetch
\* (scraper.ts 603, 583-590)
ExStart ==
    /\ Len(exCalls) < MaxCalls
    /\ LET code == ExCodeOf(Len(exCalls) + 1)
           call == [code |-> code, start |-> now, sawWriter |-> exWriter,
                    sawCache |-> exchangeCache]
       IN  IF CacheFresh(exchangeCache, now)
           THEN /\ exCalls' = Append(exCalls,
                       call @@ [pc |-> "returned", fetched |-> FALSE, outcome |-> "cached",
                                found |-> NotRun, left |-> NotRun,
                                data |-> exchangeCache.data,
                                item |-> getExchange(ExchangeCodeOf[code], exchangeCache.data)])
                /\ UNCHANGED req
           ELSE /\ exCalls' = Append(exCalls,
                       call @@ [pc |-> "fetching", fetched |-> TRUE, outcome |-> "pending",
                                found |-> NotRun, left |-> NotRun,
                                data |-> NotRun, item |-> NotRun])
                /\ req' = Append(req, "naver:EXCHANGE")
    /\ UNCHANGED <<exWriter, exTicks, exchangeCache, now>>

\* the fetch of call i settles: getExchangeData 590-596, getExchange 605-622
ExFinish ==
    /\ \E i \in DOMAIN exCalls, kind \in ExAnswerKinds :
          /\ exCalls[i].pc = "fetching"
          /\ LET a == AfterFetch(exchangeCache, exCalls[i].start, ExAnswer(i, kind))
             IN  /\ exchangeCache' = a.cache
                 /\ exWriter' = IF ExAnswer(i, kind).ok THEN i ELSE exWriter
                 /\ exCalls' = [exCalls EXCEPT
                                  ![i].pc = "returned",
                                  ![i].outcome = kind,
                                  ![i].found = exchangeCache,
                                  ![i].left = a.cache,
                                  ![i].data = a.data,
                                  ![i].item = getExchange(ExchangeCodeOf[exCalls[i].code], a.data)]
    /\ UNCHANGED <<exTicks, now, req>>

ExOthers == <<request, env, pc, response, tg, loc>>

InitCache == ExInit /\ FmtIdle /\ PgIdle /\ ChIdle
NextCache ==
    \/ ExTick /\ UNCHANGED <<fmtVars, pgVars, chVars, ExOthers>>
    \/ ExStart /\ UNCHANGED <<fmtVars, pgVars, chVars, ExOthers>>
    \/ ExFinish /\ UNCHANGED <<fmtVars, pgVars, chVars, ExOthers>>
SpecCache == InitCache /\ [][NextCache]_vars

(***************************************************************************)
(* Claims                                                                  *)
(***************************************************************************)
IsPrefix(p, s) == Len(p) <= Len(s) /\ SubSeq(s, 1, Len(p)) = p

PgNormalized == toUpperCase(trim(pgSymbol))
PgCanonical == extractCanonicalSymbol(pgPage, PgNormalized)

\* the value of the first fin-streamer node of a field that carries the symbol
\* and a parseable number, Null when there is none
FirstStreamer(field, symbol) ==
    LET nodes == pgPage.streamers[field]
        hits == {i \in DOMAIN nodes :
                    /\ toUpperCase(Or(nodes[i].symbol, Str(<<>>)).str) = symbol
                    /\ parseSignedNumber(Or(nodes[i].value, nodes[i].text)) # Null}
    IN  IF hits = {} THEN Null
        ELSE LET first == CHOOSE i \in hits : \A j \in hits : i <= j
             IN  parseSignedNumber(Or(nodes[first].value, nodes[first].text))

\* the embedded JSON quote: sveltekit-fetched blocks first, then trending
PgEmbedded ==
    LET sk == extractFromSveltekitFetchedScripts(pgPage, {PgCanonical, PgNormalized})
        tr == extractFromTrendingScript(pgPage, {PgCanonical, PgNormalized})
    IN  IF sk # Null THEN sk ELSE tr

EmbeddedField(field) ==
    IF PgEmbedded = Null THEN Null
    ELSE CASE field = "regularMarketPrice" -> PgEmbedded.price
           [] field = "regularMarketChange" -> PgEmbedded.change
           [] field = "regularMarketChangePercent" -> PgEmbedded.changePercent

LocalOf(field) ==
    CASE field = "regularMarketPrice" -> pgLocals.price
      [] field = "regularMarketChange" -> pgLocals.change
      [] field = "regularMarketChangePercent" -> pgLocals.changePercent

\* C7: in fetchYahooQuotePage each of price, change and change-percent is
\* resolved on its own by the same ordered fallback: the fin-streamer value
\* for the canonical-link symbol, else the fin-streamer value for the requested
\* symbol, else the embedded JSON quote (sveltekit-fetched blocks before the
\* trending-tickers block).  A later strategy's value is used for a field only
\* when every earlier strategy yielded no value for that field.
C7_OrderedFallbackPerField ==
    pgLocals # Null =>
        \A f \in Fields :
            LET byCanonical == FirstStreamer(f, PgCanonical)
                byRequested == FirstStreamer(f, PgNormalized)
                byEmbedded == EmbeddedField(f)
            IN  /\ byCanonical # Null => LocalOf(f) = byCanonical
                /\ byCanonical = Null /\ byRequested # Null => LocalOf(f) = byRequested
                /\ byCanonical = Null /\ byRequested = Null => LocalOf(f) = byEmbedded

\* The three fields of one page come from three different strategies: the
\* price from the canonical symbol's fin-streamer, the change from the
\* requested symbol's, the change-percent from the embedded quote.
C7_Witness ==
    /\ pgLocals # Null
    /\ PgCanonical # PgNormalized
    /\ FirstStreamer("regularMarketPrice", PgCanonical) # Null
    /\ FirstStreamer("regularMarketPrice", PgNormalized) # Null
    /\ EmbeddedField("regularMarketPrice") # Null
    /\ FirstStreamer("regularMarketChange", PgCanonical) = Null
    /\ FirstStreamer("regularMarketChange", PgNormalized) # Null
    /\ EmbeddedField("regularMarketChange") # Null
    /\ FirstStreamer("regularMarketChangePercent", PgCanonical) = Null
    /\ FirstStreamer("regularMarketChangePercent", PgNormalized) = Null
    /\ EmbeddedField("regularMarketChangePercent") # Null
    /\ pgLocals.price = Num(12)
    /\ pgLocals.change = Num(11)
    /\ pgLocals.changePercent = Num(-2)

PgFetchedHtml ==
    /\ PgNormalized # <<>>
    /\ pgPage.status = "200"
    /\ ~pgPage.bodyFails
    /\ \A p \in pgPage.phrases : p.phrase # "too many requests"

PgNoPrice ==
    /\ FirstStreamer("regularMarketPrice", PgCanonical) = Null
    /\ FirstStreamer("regularMarketPrice", PgNormalized) = Null
    /\ EmbeddedField("regularMarketPrice") = Null

PgHasMarker ==
    \E p \in pgPage.phrases :
        p.phrase \in { "symbol lookup from yahoo finance", "requested symbol wasn",
                       "requested symbol was not found", "lookup from yahoo finance" }

\* C8: fetchYahooQuotePage returns 'not_found' exactly when the symbol is
\* empty after trimming, or the HTTP status is 404, or the page was fetched,
\* is not rate-limited, yields no price by any strategy and contains a
\* not-found marker phrase.  No price and no marker gives 'error'; a page with
\* a price is never 'not_found', marker or not.
C8_NotFoundExactly ==
    pgPc = "returned" =>
        /\ pgResult.status = "not_found" <=>
              \/ PgNormalized = <<>>
              \/ PgNormalized # <<>> /\ pgPage.status = "404"
              \/ PgFetchedHtml /\ PgNoPrice /\ PgHasMarker
        /\ PgFetchedHtml /\ PgNoPrice /\ ~PgHasMarker => pgResult.status = "error"
        /\ PgFetchedHtml /\ ~PgNoPrice => pgResult.status = "ok"

\* A fetched page that holds both a price and a marker phrase was answered 'ok'.
C8_Witness ==
    /\ pgPc = "returned"
    /\ PgFetchedHtml
    /\ PgHasMarker
    /\ ~PgNoPrice
    /\ pgResult.status = "ok"

\* A fetched page without price but with a marker phrase was answered 'not_found'.
C8_WitnessMarker ==
    /\ pgPc = "returned"
    /\ PgFetchedHtml
    /\ PgHasMarker
    /\ PgNoPrice
    /\ pgResult.status = "not_found"

\* ---- the worker (Spec) ----
IsPost == request.kind = "fetch" /\ request.method = "POST"

Kinds == {tg[i].kind : i \in DOMAIN tg}
Asked == {req[i] : i \in DOMAIN req}

\* C1: every POST request to the fetch handler is answered with HTTP 200,
\* whatever fails while handling it, the sending of the error notice included;
\* no other status is ever returned for a POST.
C1_PostAlways200 ==
    IsPost =>
        /\ pc = "done" => response = Status(200)
        /\ response # NotRun => response = Status(200)

\* A POST whose error notice itself threw has been answered with 200.
C1_Witness ==
    /\ IsPost
    /\ pc = "done"
    /\ tg # <<>>
    /\ tg[Len(tg)].kind = "error_notice"
    /\ tg[Len(tg)].outcome = "throw"
    /\ response = Status(200)

\* the webhook got as far as choosing a branch for a message with text and sender
Dispatched ==
    /\ IsPost
    /\ pc # "start"
    /\ loc.rawCommand # Undefined

TextOf == trim(request.body.message.text.str)

\* the branch the priority of the claim gives
ExpectedBranch ==
    IF toLowerCase(TextOf) = <<"n", "o", "w">> THEN "now"
    ELSE IF startsWith(TextOf, "?") THEN "search"
    ELSE IF parseCommand(TextOf) # Null THEN "quote"
    ELSE "ignore"

BranchKinds(b) ==
    CASE b = "now" -> {"kospi_chart", "usd_chart", "daily"}
      [] b = "search" -> {"warn_empty", "warn_not_found", "warn_yahoo", "quote"}
      [] b = "quote" -> {"warn_failed", "quote"}
      [] b = "ignore" -> {}

BranchRequests(b) ==
    CASE b = "now" -> {"chart:KOSPI", "chart:USD", "naver:KOSPI", "naver:KOSDAQ", "naver:EXCHANGE"}
      [] b = "search" -> {"yahoo:page", "yahoo:quote-api", "yahoo:search-api"}
      [] b = "quote" -> {"naver:KOSPI", "naver:KOSDAQ", "naver:NASDAQ", "naver:EXCHANGE"}
      [] b = "ignore" -> {}

BranchFinal(b) ==
    CASE b = "now" -> "daily" \in Kinds
      [] b = "search" -> Len(tg) = 1
      [] b = "quote" -> Len(tg) = 1
      [] b = "ignore" -> tg = <<>>

\* C2: for a webhook message with text and a sender exactly one branch runs,
\* chosen by priority: the trimmed text is 'now' ignoring case -> briefing;
\* else it starts with '?' -> search; else parseCommand of the trimmed text in
\* its own case gives a type -> quote; else ignored.  Only the calls of that
\* branch are ever made (besides the error notice), and a handler that
\* finishes without an exception has made that branch's reply.
C2_OneBranchByPriority ==
    Dispatched =>
        /\ loc.branch = ExpectedBranch
        /\ Kinds \subseteq BranchKinds(ExpectedBranch) \cup {"error_notice"}
        /\ Asked \subseteq BranchRequests(ExpectedBranch)
        /\ pc = "done" /\ ~loc.error => BranchFinal(ExpectedBranch)

\* 'Kospi' matches no key in its own case: the message was ignored, while
\* ' kospi ' was trimmed and quoted.
C2_Witness ==
    /\ Dispatched
    /\ pc = "done"
    /\ ~loc.error
    /\ TextOf = <<"K", "o", "s", "p", "i">>
    /\ loc.branch = "ignore"
    /\ tg = <<>>

UnknownUpdate ==
    /\ IsPost
    /\ \/ request.body.json = "object" /\ Falsy(request.body.message)
       \/ /\ request.body.json = "object"
          /\ ~Falsy(request.body.message)
          /\ \/ Falsy(request.body.message.text)
             \/ Falsy(request.body.message.from)
             \/ /\ toLowerCase(TextOf) # <<"n", "o", "w">>
                /\ ~startsWith(TextOf, "?")
                /\ TextOf \notin commandMapKeys

\* C3: unknown commands are ignored: for an update with no message, no text,
\* no sender, or a text that is not 'now', does not start with '?' and is not
\* one of the listed instrument commands, the handler makes no outbound
\* request at all and returns 200.
C3_UnknownIgnored ==
    UnknownUpdate =>
        /\ tg = <<>>
        /\ req = <<>>
        /\ pc = "done" => response = Status(200)

ReadmeCommands ==
    { <<<<"uCF54", "uC2A4", "uD53C">>, "kospi">>,
      <<<<"k", "o", "s", "p", "i">>, "kospi">>,
      <<<<"K", "O", "S", "P", "I">>, "kospi">>,
      <<<<"uCF54", "uC2A4", "uB2E5">>, "kosdaq">>,
      <<<<"k", "o", "s", "d", "a", "q">>, "kosdaq">>,
      <<<<"K", "O", "S", "D", "A", "Q">>, "kosdaq">>,
      <<<<"uB098", "uC2A4", "uB2E5">>, "nasdaq">>,
      <<<<"n", "a", "s", "d", "a", "q">>, "nasdaq">>,
      <<<<"N", "A", "S", "D", "A", "Q">>, "nasdaq">>,
      <<<<"uB2EC", "uB7EC">>, "usd">>,
      <<<<"u", "s", "d">>, "usd">>,
      <<<<"U", "S", "D">>, "usd">>,
      <<<<"uC5D4", "uD654">>, "jpy">>,
      <<<<"uC5D4">>, "jpy">>,
      <<<<"j", "p", "y">>, "jpy">>,
      <<<<"J", "P", "Y">>, "jpy">>,
      <<<<"uC720", "uB85C">>, "eur">>,
      <<<<"e", "u", "r">>, "eur">>,
      <<<<"E", "U", "R">>, "eur">>,
      <<<<"uAE08">>, "gold">>,
      <<<<"g", "o", "l", "d">>, "gold">>,
      <<<<"G", "O", "L", "D">>, "gold">> }

\* C4: every command of the README's table of supported quotes is recognised
\* by parseCommand as its instrument, and a handler that got the instrument's
\* data and finished without an exception has answered with a quote message.
C4_ReadmeCommandsQuoted ==
    \A e \in ReadmeCommands :
        Dispatched /\ request.body.message.text.str = e[1] =>
            /\ loc.branch = "quote"
            /\ loc.marketType = Str(e[2])
            /\ pc = "done" /\ ~loc.error /\ loc.marketData # Null =>
                  /\ Len(tg) = 1
                  /\ tg[1].kind = "quote"
                  /\ tg[1].payload.name = Str(marketNames[loc.marketData.type])

\* C5: every scheduled trigger with both environment variables set that holds
\* the market summary attempts to send the daily summary text message to
\* TELEGRAM_CHAT_ID, even when the delivery of a chart image fails.
C5_ScheduledSendsSummary ==
    /\ request.kind = "scheduled"
    /\ ~Falsy(env.TELEGRAM_BOT_TOKEN)
    /\ ~Falsy(env.TELEGRAM_CHAT_ID)
    /\ loc.marketSummary # Undefined
    /\ pc = "done"
    => \E i \in DOMAIN tg :
          /\ tg[i].kind = "daily"
          /\ tg[i].method = "sendMessage"
          /\ tg[i].chat_id = env.TELEGRAM_CHAT_ID

LookedUp == IsPost /\ loc.lookup # "none"

\* C6 as stated: the global-quote lookup asks the JSON quote API first and
\* requests the rendered HTML page only after it, as the fallback.
C6_JsonFirstHtmlFallback ==
    LookedUp /\ req # <<>> =>
        /\ req[1] = "yahoo:quote-api"
        /\ \A i \in DOMAIN req : req[i] = "yahoo:page" => i > 1

PageUnavailable(page) ==
    \/ page.status \in {"throw", "500"}
    \/ page.bodyFails
    \/ \E p \in page.phrases : p.phrase = "too many requests"

\* C6 as amended: the lookup that scraper.ts exports makes one request, to the
\* rendered HTML quote page, asks no JSON API, and answers 'error' when the
\* page is unavailable or rate-limited; the definition in index.ts asks only
\* the JSON quote and search APIs, the quote API first, and never the page.
C6_NoJsonHtmlFallback ==
    LookedUp =>
        /\ loc.lookup = "scraper.ts" =>
              /\ req = <<"yahoo:page">>
              /\ PageUnavailable(loc.item) => loc.yahooResult.status = "error"
        /\ loc.lookup = "index.ts" =>
              /\ Len(req) \in 1..3
              /\ req[1] = "yahoo:quote-api"
              /\ Asked \subseteq {"yahoo:quote-api", "yahoo:search-api"}

\* The exported lookup met a rate-limited page: one page request, status 'error'.
C6_Witness ==
    /\ LookedUp
    /\ loc.lookup = "scraper.ts"
    /\ \E p \in loc.item.phrases : p.phrase = "too many requests"
    /\ req = <<"yahoo:page">>
    /\ loc.yahooResult.status = "error"

\* the provider item a quote was built from: its status object and delta
QuotedItem ==
    IF loc.marketData.type \in IndexTypes
    THEN LET it == loc.item.data.datas.items[1]
         IN  [status |-> it.compareToPreviousPrice, delta |-> it.compareToPreviousClosePrice]
    ELSE LET items == loc.item.data.result.items
             code == Str(ExchangeCodeOf[loc.marketData.type])
             it == items[CHOOSE i \in DOMAIN items :
                            /\ items[i].exchangeCode = code
                            /\ \A j \in 1..(i - 1) : items[j].exchangeCode # code]
         IN  [status |-> it.fluctuationsType, delta |-> it.fluctuations]

Quoted ==
    /\ IsPost
    /\ loc.branch = "quote"
    /\ loc.marketData # Undefined
    /\ loc.marketData # Null
    /\ loc.marketData # Threw

CodeIs(c) == QuotedItem.status # Undefined /\ QuotedItem.status.code = Str(<<c>>)

\* C10: for domestic-index and FX quotes the direction comes from the
\* provider's status code alone: '2' gives 'up', '5' gives 'down', any other
\* code, '3' and a missing code included, gives 'unchanged', whatever the sign
\* of the provider's delta string.
C10_DirectionFromCode ==
    Quoted =>
        /\ CodeIs("2") => loc.marketData.change.direction = "up"
        /\ CodeIs("5") => loc.marketData.change.direction = "down"
        /\ ~CodeIs("2") /\ ~CodeIs("5") => loc.marketData.change.direction = "unchanged"

\* An FX quote with code '5' and a positive delta string is 'down'.
C10_Witness ==
    /\ Quoted
    /\ loc.marketData.type = "usd"
    /\ CodeIs("5")
    /\ QuotedItem.delta = Str(<<"1", ".", "5">>)
    /\ loc.marketData.change.direction = "down"

\* An index quote without a status code and with a negative delta string is 'unchanged'.
C10_WitnessMissingCode ==
    /\ Quoted
    /\ loc.marketData.type = "kospi"
    /\ QuotedItem.status = Undefined
    /\ QuotedItem.delta = Str(<<"-", "1", ".", "5">>)
    /\ loc.marketData.change.direction = "unchanged"

\* ---- toYahooChangeInfo (SpecPage) ----
PgQuoted == pgPc = "returned" /\ pgResult.status = "ok"

\* the digits of |n|, grouped by three as en-US writes them
AbsText(n) == Grouped(Digits(IF n < 0 THEN 0 - n ELSE n))

\* C11: the change record of a global quote has the direction of the sign of
\* the numeric delta (positive 'up', negative 'down', zero 'unchanged'), gives
\* the delta and the percentage as absolute values, and is absent unless both
\* the delta and the percentage were read as finite numbers.
C11_DirectionFromSign ==
    PgQuoted =>
        LET c == pgLocals.change
            p == pgLocals.changePercent
            r == pgResult.data.change
        IN  IF c = Null \/ p = Null THEN r = Undefined
            ELSE /\ r # Undefined
                 /\ c.num > 0 => r.direction = "up"
                 /\ c.num < 0 => r.direction = "down"
                 /\ c.num = 0 => r.direction = "unchanged"
                 /\ r.value = AbsText(c.num)
                 /\ r.percent = Digits(IF p.num < 0 THEN 0 - p.num ELSE p.num)
                                    \o <<".", "0", "0", "%">>

\* A negative delta with a negative percentage: 'down', both written unsigned.
C11_Witness ==
    /\ PgQuoted
    /\ pgLocals.change = Num(-21)
    /\ pgLocals.changePercent = Num(-2)
    /\ pgResult.data.change.direction = "down"
    /\ pgResult.data.change.value = <<"2", "1">>
    /\ pgResult.data.change.percent = <<"2", ".", "0", "0", "%">>

\* A delta without a percentage gives no change record.
C11_WitnessAbsent ==
    /\ PgQuoted
    /\ pgLocals.change # Null
    /\ pgLocals.changePercent = Null
    /\ pgResult.data.change = Undefined

\* ---- parseCommand (Spec) ----
\* C12: parseCommand gives null or one of the nine MarketType values; it gives
\* a value only for a key of its command table, matched exactly and with its
\* case, and then the value the table holds for that key.
C12_ParseCommandExact ==
    Dispatched /\ loc.branch \in {"quote", "ignore"} =>
        /\ loc.branch = "quote" =>
              /\ loc.marketType \in {Str(t) : t \in MarketTypes}
              /\ \E e \in commandMapEntries : e[1] = TextOf /\ loc.marketType = Str(e[2])
        /\ loc.branch = "ignore" => TextOf \notin commandMapKeys

\* ---- parseSearchCommand (Spec) ----
RawText == request.body.message.text.str

\* positions after the leading '?' of the trimmed text that hold no whitespace
QueryChars == {i \in 2..Len(TextOf) : ~IsSpace(TextOf[i])}

\* C13: parseSearchCommand gives a query exactly when the trimmed command
\* starts with '?' and a non-whitespace character follows; the query is the
\* text after the first '?' without its surrounding whitespace, so it is not
\* empty and neither begins nor ends with whitespace.  A bare '?' gets the
\* empty-query warning and no provider lookup is made.
C13_SearchQuery ==
    Dispatched =>
        /\ ~startsWith(TextOf, "?") =>
              /\ parseSearchCommand(RawText) = Null
              /\ loc.query = Undefined
        /\ loc.branch = "search" =>
              /\ startsWith(TextOf, "?")
              /\ loc.query = parseSearchCommand(RawText)
              /\ loc.query # Null <=> QueryChars # {}
              /\ loc.query # Null =>
                    LET q == loc.query.str
                        k == CHOOSE i \in QueryChars : \A j \in QueryChars : i <= j
                    IN  /\ q = SubSeq(TextOf, k, Len(TextOf))
                        /\ q # <<>>
                        /\ ~IsSpace(q[1])
                        /\ ~IsSpace(q[Len(q)])
              /\ loc.query = Null =>
                    /\ req = <<>>
                    /\ loc.lookup = "none"
                    /\ Kinds \subseteq {"warn_empty", "error_notice"}
                    /\ pc = "done" /\ ~loc.error =>
                          Len(tg) = 1 /\ tg[1].kind = "warn_empty"

\* '? ' was answered with the empty-query warning and nothing was looked up.
C13_Witness ==
    /\ Dispatched
    /\ RawText = <<"?", " ">>
    /\ loc.query = Null
    /\ pc = "done"
    /\ Len(tg) = 1
    /\ tg[1].kind = "warn_empty"
    /\ req = <<>>

\* '? a b<tab>' was looked up as 'a b'.
C13_WitnessQuery ==
    /\ Dispatched
    /\ RawText = <<"?", " ", "a", " ", "b", "\t">>
    /\ loc.query = Str(<<"a", " ", "b">>)
    /\ loc.lookup # "none"

\* ---- getDailyMarketSummary (Spec) ----
\* the handler has awaited getDailyMarketSummary; loc.item holds what the
\* eight sources answered
SummaryAsked == loc.branch = "now" /\ loc.item # Undefined

\* the source of an index gave no data: request failed, non-OK status, no item
IndexNoData(a) ==
    \/ ~a.ok
    \/ a.data = Null
    \/ Falsy(a.data.datas)
    \/ a.data.datas.items = <<>>

\* the exchange source gave no data
ExchangeNoData(a) ==
    \/ ~a.ok
    \/ a.data = Null
    \/ ~a.data.isSuccess
    \/ Falsy(a.data.result)

\* C14: getDailyMarketSummary always resolves with all eight entries and
\* never rejects; an entry whose source failed or had no data has value null,
\* and an entry whose source answered has that source's close price whatever
\* the other sources did.
C14_SummaryAlwaysResolves ==
    SummaryAsked =>
        /\ loc.marketSummary # Undefined
        /\ DOMAIN loc.marketSummary = SummaryKeys
        /\ \A k \in {"kospi", "kosdaq"} :
              IF IndexNoData(loc.item[k])
              THEN loc.marketSummary[k].value = Null
              ELSE loc.marketSummary[k].value = loc.item[k].data.datas.items[1].closePrice
        /\ \A k \in Currencies :
              ExchangeNoData(loc.item[k]) => loc.marketSummary[k].value = Null

\* ---- environment variables (Spec) ----
AnyMissing == Falsy(env.TELEGRAM_BOT_TOKEN) \/ Falsy(env.TELEGRAM_CHAT_ID)

C15_WitnessScheduled ==
    /\ request.kind = "scheduled"
    /\ ~Falsy(env.TELEGRAM_BOT_TOKEN)
    /\ Falsy(env.TELEGRAM_CHAT_ID)
    /\ pc = "done"
    /\ tg = <<>>
    /\ req = <<>>

\* ---- chart URLs (SpecChart) ----
\* the entries of the answered series, Null entries included, <<>> when the
\* request failed or the answer reports no series
KospiEntries ==
    IF ~chKospi.ok \/ Falsy(chKospi.data.priceInfos) THEN <<>>
    ELSE chKospi.data.priceInfos.items

UsdEntries ==
    IF ~chUsd.ok \/ ~chUsd.data.isSuccess \/ Falsy(chUsd.data.result) THEN <<>>
    ELSE chUsd.data.result.items

\* the entries among the seven nearest the recent end: KOSPI is delivered
\* oldest first, USD newest first
KospiRecent == {i \in DOMAIN KospiEntries : i > Len(KospiEntries) - 7}
UsdRecent == {i \in DOMAIN UsdEntries : i <= 7}

\* no data point was obtained: nothing answered, or reading an entry failed
NoPoints(entries, recent) == recent = {} \/ \E i \in recent : entries[i] = Null

\* the chart shows exactly these days, oldest first, each with its close
ShowsOldestFirst(url, entries, recent) ==
    /\ Len(url.values) = Cardinality(recent)
    /\ Len(url.labels) = Len(url.values)
    /\ Len(url.values) <= 7
    /\ \A i \in 1..(Len(url.values) - 1) : url.values[i] < url.values[i + 1]
    /\ \A i \in DOMAIN url.values :
          \E j \in recent :
              /\ url.values[i] = entries[j].closePrice
              /\ url.labels[i] = <<entries[j].localDate[2], "/", entries[j].localDate[3]>>
    /\ \A j \in DOMAIN entries :
          entries[j] # Null /\ j \notin recent =>
              \A i \in DOMAIN url.values : entries[j].closePrice < url.values[i]

\* C16: getKospiChartUrl and getUsdChartUrl never reject; they return null
\* exactly when no data point was obtained; otherwise the URL encodes at most
\* 7 points, the 7 most recent ones, oldest first, whether the series is
\* delivered oldest first (KOSPI) or newest first (USD).
C16_ChartSevenMostRecent ==
    chPc = "returned" =>
        /\ chUrls.kospi = Null <=> NoPoints(KospiEntries, KospiRecent)
        /\ chUrls.kospi # Null => ShowsOldestFirst(chUrls.kospi, KospiEntries, KospiRecent)
        /\ chUrls.usd = Null <=> NoPoints(UsdEntries, UsdRecent)
        /\ chUrls.usd # Null => ShowsOldestFirst(chUrls.usd, UsdEntries, UsdRecent)

\* Both series have more than seven days: each chart shows the last seven,
\* oldest first.
C16_Witness ==
    /\ chPc = "returned"
    /\ Len(KospiEntries) = MaxPoints
    /\ Len(UsdEntries) = MaxPoints
    /\ chUrls.kospi # Null
    /\ chUrls.usd # Null
    /\ Len(chUrls.usd.values) = 7
    /\ chUrls.usd.values[1] = UsdEntries[7].closePrice
    /\ chUrls.usd.values[7] = UsdEntries[1].closePrice
    /\ chUrls.kospi.values[7] = KospiEntries[MaxPoints].closePrice

\* ---- the exchange cache (SpecCache, Spec) ----
Returned(c) == c.pc = "returned"

\* the call's fetch resolved with a body, which line 591 stores
Stored(c) == Returned(c) /\ c.fetched /\ c.outcome # "failed"

\* at its start the call found a response in the cache
SawResponse(c) == c.sawWriter # 0 /\ ~Falsy(c.sawCache.data)

\* C17: exchange data is cached for one minute: a call that starts less than
\* 60000 ms after the start of the call that populated the cache returns the
\* cached response without a network request, a call that starts 60000 ms or
\* more after it fetches anew.
C17_CachedForOneMinute ==
    /\ Len(req) = Cardinality({i \in DOMAIN exCalls : exCalls[i].fetched})
    /\ \A i \in DOMAIN exCalls :
          LET c == exCalls[i]
          IN  IF SawResponse(c)
              THEN LET w == exCalls[c.sawWriter]
                   IN  /\ c.sawCache.timestamp = w.start
                       /\ c.start - w.start < 60000 =>
                             /\ ~c.fetched
                             /\ c.data = w.data
                       /\ c.start - w.start >= 60000 => c.fetched
              ELSE c.fetched

\* A call 59999 ms after the populating call got its response, no request made.
C17_Witness ==
    \E i \in DOMAIN exCalls :
        LET c == exCalls[i]
        IN  /\ SawResponse(c)
            /\ c.start - exCalls[c.sawWriter].start = 59999
            /\ ~c.fetched
            /\ c.data = exCalls[c.sawWriter].data
            /\ Len(req) = 1

\* A call exactly 60000 ms after the populating call made a new request.
C17_WitnessExpired ==
    \E i \in DOMAIN exCalls :
        LET c == exCalls[i]
        IN  /\ SawResponse(c)
            /\ c.start - exCalls[c.sawWriter].start = 60000
            /\ c.fetched
            /\ Len(req) = 2

\* C18: one getDailyMarketSummary, asking the six currencies together, issues
\* at most one request to the exchange endpoint.
C18_OneExchangeRequest ==
    loc.branch = "now" =>
        Cardinality({i \in DOMAIN req : req[i] = "naver:EXCHANGE"}) <= 1

\* C19: under any interleaving of getExchangeData calls the cache's timestamp
\* never decreases (it is never below a timestamp it held before) and the
\* cached data is the response of the stored fetch that started last: a fetch
\* that started earlier never overwrites the entry of one that started later.
C19_LatestStartedFetchWins ==
    \A i \in DOMAIN exCalls :
        Stored(exCalls[i]) =>
            /\ exchangeCache.timestamp >= exCalls[i].left.timestamp
            /\ exchangeCache.timestamp >= exCalls[i].start
            /\ (\A j \in DOMAIN exCalls :
                    j # i /\ Stored(exCalls[j]) => exCalls[j].start < exCalls[i].start)
                  => exchangeCache.data = exCalls[i].data

\* C20: a failed refresh leaves exchangeCache as it was and returns null, so
\* the currency asked reports value null even while an expired response is
\* still held; a response with isSuccess false is stored like any other and
\* makes every currency served from it report value null until it expires.
C20_FailedRefreshKeepsCache ==
    \A i \in DOMAIN exCalls :
        LET c == exCalls[i]
        IN  /\ Returned(c) /\ c.outcome = "failed" =>
                  /\ c.left = c.found
                  /\ c.data = Null
                  /\ c.item = NullItem
            /\ Returned(c) /\ c.outcome = "notSuccess" =>
                  /\ c.left = [data |-> c.data, timestamp |-> c.start]
                  /\ ~c.data.isSuccess
                  /\ c.item = NullItem
            /\ Returned(c) /\ c.outcome = "cached" /\ ~c.sawCache.data.isSuccess =>
                  /\ c.start - c.sawCache.timestamp < 60000
                  /\ c.data = c.sawCache.data
                  /\ c.item = NullItem
            /\ SawResponse(c) /\ c.start - c.sawCache.timestamp >= 60000 => c.fetched

\* A refresh failed while an expired table was held: the table is still in
\* the cache and the call reported null.
C20_Witness ==
    \E i \in DOMAIN exCalls :
        LET c == exCalls[i]
        IN  /\ Returned(c)
            /\ c.outcome = "failed"
            /\ ~Falsy(c.found.data)
            /\ c.found.data.isSuccess
            /\ c.start - c.found.timestamp >= 60000
            /\ exchangeCache = c.found
            /\ c.item = NullItem

\* A response with isSuccess false was served from the cache: value null.
C20_WitnessNotSuccess ==
    \E i \in DOMAIN exCalls :
        LET c == exCalls[i]
        IN  /\ Returned(c)
            /\ c.outcome = "cached"
            /\ ~c.sawCache.data.isSuccess
            /\ c.item = NullItem

\* ---- the daily briefing's Telegram calls (Spec) ----
IsBriefingCall(c) == c.kind # "error_notice"
BriefingCalls == SelectSeq(tg, IsBriefingCall)
KindsOf(calls) == [i \in DOMAIN calls |-> calls[i].kind]

\* the calls a briefing makes for the chart URLs it got
ExpectedBriefing ==
    (IF loc.charts.kospi = Null THEN <<>> ELSE <<"kospi_chart">>)
    \o (IF loc.charts.usd = Null THEN <<>> ELSE <<"usd_chart">>)
    \o <<"daily">>

\* C21: a trigger that sends the daily briefing (scheduled, GET /test, 'now')
\* calls Telegram in the order KOSPI photo, USD photo, summary text; a null
\* chart URL gets no photo; a call starts only after the one before it
\* completed, so nothing of the briefing follows a call that threw.
C21_BriefingOrder ==
    loc.branch = "now" =>
        /\ loc.charts = Undefined => BriefingCalls = <<>>
        /\ loc.charts # Undefined =>
              /\ IsPrefix(KindsOf(BriefingCalls), ExpectedBriefing)
              /\ pc = "done" /\ ~loc.error => KindsOf(BriefingCalls) = ExpectedBriefing
              /\ \A i \in DOMAIN BriefingCalls :
                    /\ BriefingCalls[i].kind = "kospi_chart" =>
                          /\ BriefingCalls[i].method = "sendPhoto"
                          /\ BriefingCalls[i].payload.photo = loc.charts.kospi
                    /\ BriefingCalls[i].kind = "usd_chart" =>
                          /\ BriefingCalls[i].method = "sendPhoto"
                          /\ BriefingCalls[i].payload.photo = loc.charts.usd
                    /\ BriefingCalls[i].kind = "daily" =>
                          /\ BriefingCalls[i].method = "sendMessage"
                          /\ BriefingCalls[i].payload.data = loc.marketSummary
                    /\ i < Len(BriefingCalls) => BriefingCalls[i].outcome # "throw"
        /\ \A i \in DOMAIN tg : tg[i].kind = "error_notice" => i = Len(tg)

\* Both photos and the summary went out, in that order, on the 'now' command.
C21_Witness ==
    /\ loc.handler = "webhook"
    /\ loc.branch = "now"
    /\ pc = "done"
    /\ KindsOf(tg) = <<"kospi_chart", "usd_chart", "daily">>

\* The scheduled trigger got no KOSPI chart URL: USD photo, then the summary.
C21_WitnessNullChart ==
    /\ loc.handler = "scheduled"
    /\ pc = "done"
    /\ loc.charts # Undefined
    /\ loc.charts.kospi = Null
    /\ KindsOf(tg) = <<"usd_chart", "daily">>

\* ---- the chat a call is addressed to (Spec) ----
\* message.chat.id.toString() of the update being handled
MessageChat == Str(NumToString(request.body.message.chat.id))

\* C22: every Telegram call made while handling a webhook message goes to the
\* chat the message came from, also when TELEGRAM_CHAT_ID names another chat;
\* the scheduled trigger and GET /test address every call to TELEGRAM_CHAT_ID.
C22_AddressedToSender ==
    \A i \in DOMAIN tg :
        /\ loc.handler = "webhook" => tg[i].chat_id = MessageChat
        /\ loc.handler \in {"scheduled", "test"} => tg[i].chat_id = env.TELEGRAM_CHAT_ID
        /\ loc.handler \in {"webhook", "scheduled", "test"}

\* A message from chat -200 while TELEGRAM_CHAT_ID is 100: the photo, the
\* failed summary and the error notice all went to -200.
C22_Witness ==
    /\ loc.handler = "webhook"
    /\ env.TELEGRAM_CHAT_ID = Str(<<"1", "0", "0">>)
    /\ KindsOf(tg) = <<"kospi_chart", "daily", "error_notice">>
    /\ \A i \in DOMAIN tg : tg[i].chat_id = Str(<<"-", "2", "0", "0">>)

\* A quote reply to chat -200 while TELEGRAM_CHAT_ID is 100.
C22_WitnessQuote ==
    /\ loc.handler = "webhook"
    /\ env.TELEGRAM_CHAT_ID = Str(<<"1", "0", "0">>)
    /\ KindsOf(tg) = <<"quote">>
    /\ tg[1].chat_id = Str(<<"-", "2", "0", "0">>)

\* GET /test sent the briefing to TELEGRAM_CHAT_ID.
C22_WitnessTest ==
    /\ loc.handler = "test"
    /\ pc = "done"
    /\ Len(tg) = 3
    /\ \A i \in DOMAIN tg : tg[i].chat_id = Str(<<"1", "0", "0">>)

\* ---- the reply to an instrument command (Spec) ----
\* the webhook took the quote branch for one of the nine market types
Recognized ==
    /\ IsPost
    /\ loc.branch = "quote"
    /\ "str" \in DOMAIN loc.marketType
    /\ loc.marketType.str \in MarketTypes

\* the close price the provider's answer holds for the instrument asked,
\* null when the request failed or the answer has no entry for it
ProviderValue ==
    LET a == loc.item
        type == loc.marketType.str
    IN  IF type \in IndexTypes
        THEN IF IndexNoData(a) THEN Null ELSE a.data.datas.items[1].closePrice
        ELSE IF ExchangeNoData(a) THEN Null
        ELSE LET rows == a.data.result.items
                 hits == {i \in DOMAIN rows :
                             /\ rows[i] # Null
                             /\ rows[i].exchangeCode = Str(ExchangeCodeOf[type])}
             IN  IF hits = {} THEN Null
                 ELSE rows[CHOOSE i \in hits : \A j \in hits : i <= j].closePrice

\* C23: a recognized instrument command handled without an exception makes
\* exactly one sendMessage call: the quote naming the instrument and the
\* provider's value when there is one, the 'failed to fetch' warning when the
\* provider failed or gave an empty value; no quote carries a missing value.
C23_OneReplyPerQuote ==
    /\ Recognized /\ pc = "done" /\ ~loc.error =>
          /\ Len(tg) = 1
          /\ tg[1].method = "sendMessage"
          /\ IF Falsy(ProviderValue)
             THEN /\ loc.marketData = Null
                  /\ tg[1].kind = "warn_failed"
             ELSE /\ tg[1].kind = "quote"
                  /\ tg[1].payload.name = Str(marketNames[loc.marketType.str])
                  /\ tg[1].payload.value = ProviderValue
    /\ Recognized =>
          \A i \in DOMAIN tg : tg[i].kind = "quote" => ~Falsy(tg[i].payload.value)

\* 'usd' was answered with the provider's close price in one message.
C23_Witness ==
    /\ Recognized
    /\ pc = "done"
    /\ ~loc.error
    /\ loc.marketType.str = "usd"
    /\ KindsOf(tg) = <<"quote">>
    /\ tg[1].payload.value = Str(<<"2", ",", "5", "0", "0">>)

\* The index answered with an empty close price: the warning, no quote.
C23_WitnessEmptyValue ==
    /\ Recognized
    /\ pc = "done"
    /\ ~loc.error
    /\ loc.marketType.str \in IndexTypes
    /\ ~IndexNoData(loc.item)
    /\ ProviderValue = Str(<<>>)
    /\ KindsOf(tg) = <<"warn_failed">>

====
